---- MODULE Spec2Model ----
(***************************************************************************)
(* A model of the telemetry polling and alerting engine of tms-backend:    *)
(* the per-probe alert state tracker (checkProbeAlert), the scheduler      *)
(* lifecycle (Start / Stop / the two ticker loops) and the non-blocking    *)
(* event fan-out (Subscribe / Unsubscribe / notifySubscribers) of          *)
(* internal/services PollingService.                                       *)
(*                                                                         *)
(* Temperatures are integers in hundredths of a degree: every value that   *)
(* reaches a comparison has been rounded to two decimals by the caller.    *)
(***************************************************************************)
EXTENDS Integers, Sequences, FiniteSets, TLC

VARIABLES
    \* ---- alert state tracker ----
    alertStates,    \* package-level map  alertKey -> "" | "N" | "H" | "L"
    alertStatesMu,  \* holder of the package-level mutex, or "free"
    cpaPc,          \* per evaluating goroutine: position in checkProbeAlert
    cpa,            \* per evaluating goroutine: locals of checkProbeAlert
    evals,          \* history: one record per evaluation, in call order
    \* ---- scheduler lifecycle ----
    running,        \* p.running
    stopChan,       \* p.stopChan: "open" | "closed"
    wg,             \* p.wg: the WaitGroup counter
    crashed,        \* the process was ended by an unrecovered panic
    gen,            \* number of Start calls that found the scheduler not running
    startPc,        \* per goroutine calling Start: position in Start
    loopPc,         \* per ticker goroutine: "none" | "select" | "cycle" | "exited"
    stopPc,         \* per goroutine calling Stop: position in Stop
    detached,       \* detached notification goroutines still running
    midFlight,      \* history: cycles that were in flight when Stop was called
    stoppedGen,     \* history: value of gen at the last Stop call that found it running
    cleanGen,       \* history: the Start calls made while no Stop call was in progress
    lastStep,       \* history: the step just taken
    \* ---- event fan-out ----
    subscribers,            \* p.subscribers: sequence of channels
    temperatureSubscribers, \* p.temperatureSubscribers: sequence of channels
    chans,          \* per channel: its element type, "unmade" | "open" | "closed", its buffer
    busPanic,       \* a send on a closed channel has panicked
    hist,           \* history, per channel: events published to it, what its reader has seen
    subMu,          \* holder of p.subMu, or "free" (where the fan-out is modelled statement by statement)
    busPc,          \* per goroutine that publishes or unsubscribes: its position and locals
    \* ---- poll-and-save and alert-check cycles ----
    cycle,          \* per loop: the locals of its running pollAndSave / checkAlerts
    tempLogs,       \* the temp_log table: number of rows created, and the newest row
    lastReading,    \* history: the reading handled by the step just taken
    lastEvent,      \* history: the event handed to the subscribers by the last cycle
    sends,          \* the detached SendTempLog goroutines: launched, still running, failed
    \* ---- frame decoder ----
    frame,          \* the bytes read from the device (dataBuffer), or NotRead
    parsed,         \* what parseHexResponse returned for them, or NotParsed
    req,            \* one call of RequestFromTCPServer: its position and its result
    \* ---- startup retries ----
    retry           \* one call of RetryWithBackoff: its arguments, position and locals

alertVars == <<alertStates, alertStatesMu, cpaPc, cpa, evals>>

\* The scheduler's own state, without the history variables.
schedState == <<running, stopChan, wg, crashed, gen, startPc, loopPc, stopPc, detached>>

schedVars == <<schedState, midFlight, stoppedGen, cleanGen, lastStep>>

\* The fan-out's own state, without the history variables.
busState == <<subscribers, temperatureSubscribers, chans, busPanic>>

busVars == <<busState, hist>>

lockVars == <<subMu, busPc>>

cycleVars == <<cycle, tempLogs, lastReading, lastEvent, sends>>

parseVars == <<frame, parsed, req>>

retryVars == <<retry>>

otherThanAlert == <<schedVars, busVars, cycleVars, parseVars, lockVars, retryVars>>

otherThanSched == <<alertVars, busVars, cycleVars, parseVars, lockVars, retryVars>>

otherThanBus == <<alertVars, schedVars, cycleVars, parseVars, lockVars, retryVars>>

otherThanParse == <<alertVars, schedVars, busVars, cycleVars, lockVars, retryVars>>

vars == <<alertVars, schedVars, busVars, cycleVars, parseVars, lockVars, retryVars>>

----------------------------------------------------------------------------
\* Bounds of the model.

\* evaluations of checkProbeAlert in a run where calls do not overlap
MaxEvals == 5
\* evaluations of checkProbeAlert in a run where the two loops overlap
MaxConcEvals == 3
\* Start calls that find the scheduler not running (each launches two loops)
MaxGen == 2
\* detached notification goroutines running at the same time
MaxDetached == 1
\* events published to one subscriber
MaxPublish == 11
\* readings taken from the devices' responses in one run
MaxReadings == 2
\* bytes in a response of a device
MaxFrameLen == 13
\* events published to one subscriber where the fan-out is modelled
\* statement by statement
MaxLockedPublish == 2
\* the largest maxAttempts handed to RetryWithBackoff
MaxAttempts == 4
\* the largest initialDelay and maxDelay handed to it, in seconds
MaxDelaySecs == 5

----------------------------------------------------------------------------
\* Alert state tracker

\* A nullable column (*float64) is <<>> when NULL and <<v>> otherwise.
Null == <<>>

\* The two goroutines that call checkProbeAlert: the poll-and-save loop
\* (pollAndSave) and the alert-check loop (checkAlerts).
Evaluators == {"poll", "alert"}

\* MasterMachine rows handed to checkProbeAlert (thresholds in hundredths);
\* the second row has NULL thresholds and an offset of +0.50.
Machines ==
    { [MachineIP |-> "ip1", ProbeNo |-> 1, MinTemp |-> <<2000>>, MaxTemp |-> <<3000>>,
       AdjTemp |-> Null],
      [MachineIP |-> "ip1", ProbeNo |-> 2, MinTemp |-> Null, MaxTemp |-> Null,
       AdjTemp |-> <<50>>] }

\* The endpoints polled: ip1 has a row for each of its probes, ip2 has a
\* row for probe 1 only.
Endpoints == {"ip1", "ip2"}

\* The probe numbers the decoder gives to readings.
DecodedProbeNos == {1, 2}

\* machinesByIP[ip]: the rows of an endpoint, in the order of the query
ProbesAt(ip) ==
    IF ip = "ip1"
    THEN << [MachineIP |-> "ip1", ProbeNo |-> 1, MinTemp |-> <<2000>>, MaxTemp |-> <<3000>>,
             AdjTemp |-> Null],
            [MachineIP |-> "ip1", ProbeNo |-> 2, MinTemp |-> Null, MaxTemp |-> Null,
             AdjTemp |-> <<50>>] >>
    ELSE << [MachineIP |-> "ip2", ProbeNo |-> 1, MinTemp |-> <<1000>>, MaxTemp |-> <<2500>>,
             AdjTemp |-> <<50>>] >>

\* Calibrated readings offered to the tracker (all below MaxSensorTemp).
Temps == {-500, 1800, 2400, 2500, 3200}

GetMinTemp(m) == IF m.MinTemp # Null THEN m.MinTemp[1] ELSE 0

GetMaxTemp(m) == IF m.MaxTemp # Null THEN m.MaxTemp[1] ELSE 10000

GetAdjTemp(m) == IF m.AdjTemp # Null THEN m.AdjTemp[1] ELSE 0

\* fmt.Sprintf("%s:%d", machine.MachineIP, probeNo)
AlertKey(m, probeNo) == <<m.MachineIP, probeNo>>

\* The keys alertStates can come to hold: any endpoint with any probe
\* number a reading can carry.
AlertKeys == Endpoints \X DecodedProbeNos

\* mutant of CurrentState: the upper boundary itself counts as High
CurrentStateInclusive(temp, minTemp, maxTemp) ==
    IF temp < minTemp THEN "L" ELSE IF temp >= maxTemp THEN "H" ELSE "N"

\* checkProbeAlert's candidate classification (currentState)
CurrentState(temp, minTemp, maxTemp) ==
    IF temp < minTemp THEN "L" ELSE IF temp > maxTemp THEN "H" ELSE "N"

\* mutant of Emitted: the recovery branch tests prevState # "N" instead of
\* prevState \in {"H", "L"}, so an unseen key's first in-range reading recovers
EmittedUnseenRecovers(prevState, currentState) ==
    IF currentState = prevState THEN "none"
    ELSE IF currentState \in {"H", "L"} THEN "alert"
    ELSE IF currentState = "N" /\ prevState # "N" THEN "recovery"
    ELSE "none"

\* mutant of Emitted: an out-of-range state alerts on every evaluation
EmittedEveryTime(prevState, currentState) ==
    IF currentState \in {"H", "L"} THEN "alert"
    ELSE IF currentState # prevState /\ prevState \in {"H", "L"} THEN "recovery"
    ELSE "none"

\* mutant of Emitted: only a change out of Normal alerts, High -> Low is silent
EmittedOnlyFromNormal(prevState, currentState) ==
    IF currentState = prevState THEN "none"
    ELSE IF currentState \in {"H", "L"} /\ prevState \notin {"H", "L"} THEN "alert"
    ELSE IF currentState = "N" /\ prevState \in {"H", "L"} THEN "recovery"
    ELSE "none"

\* mutant of Emitted: the return to normal is silent
EmittedNoRecovery(prevState, currentState) ==
    IF currentState = prevState THEN "none"
    ELSE IF currentState \in {"H", "L"} THEN "alert"
    ELSE "none"

\* What the state-change block of checkProbeAlert emits: an alert record and
\* notification when the new state is out of range, a recovery notification
\* when the state returns to normal from H or L, nothing otherwise.
Emitted(prevState, currentState) ==
    IF currentState = prevState THEN "none"
    ELSE IF currentState \in {"H", "L"} THEN "alert"
    ELSE IF currentState = "N" /\ prevState \in {"H", "L"} THEN "recovery"
    ELSE "none"

NoMachine == [MachineIP |-> "", ProbeNo |-> 0, MinTemp |-> Null, MaxTemp |-> Null,
              AdjTemp |-> Null]

\* The locals of a checkProbeAlert call; record is the outcome of its
\* database.DB.Create(&tempError) ("none" when it made none), kept as
\* history after the call has returned, until the goroutine's next call.
NoCall == [machine |-> NoMachine, probeNo |-> 0, temp |-> 0, prevState |-> "", idx |-> 0,
           record |-> "none"]

\* mutant of WritesTempError: every change of state is recorded
WritesTempErrorOnChange(prevState, currentState) == currentState # prevState

\* database.DB.Create(&tempError) is reached inside "if currentState !=
\* prevState" and "if currentState == "H" || currentState == "L""
WritesTempError(prevState, currentState) ==
    currentState # prevState /\ currentState \in {"H", "L"}

\* The outcomes of that Create: the row is written, refused as a duplicate
\* key (not logged), or refused otherwise (logged); no outcome changes
\* what follows
RecordOutcomes(prevState, currentState) ==
    IF WritesTempError(prevState, currentState) THEN {"ok", "dup", "fail"} ELSE {"none"}

\* checkProbeAlert is entered and alertStatesMu.Lock() succeeds
CpaLock1(g, m, probeNo, t, bound) ==
    /\ cpaPc[g] = "idle"
    /\ Len(evals) < bound
    /\ alertStatesMu = "free"
    /\ alertStatesMu' = g
    /\ cpaPc' = [cpaPc EXCEPT ![g] = "locked1"]
    /\ cpa' = [cpa EXCEPT ![g] = [machine |-> m, probeNo |-> probeNo, temp |-> t,
                                  prevState |-> "", idx |-> Len(evals) + 1,
                                  record |-> "none"]]
    /\ evals' = Append(evals, [key  |-> AlertKey(m, probeNo),
                               cand |-> CurrentState(t, GetMinTemp(m), GetMaxTemp(m)),
                               out  |-> "pending"])
    /\ UNCHANGED alertStates

\* prevState := alertStates[alertKey]; alertStatesMu.Unlock()
CpaRead(g) ==
    /\ cpaPc[g] = "locked1"
    /\ alertStatesMu = g
    /\ cpa' = [cpa EXCEPT ![g].prevState =
                   alertStates[AlertKey(cpa[g].machine, cpa[g].probeNo)]]
    /\ alertStatesMu' = "free"
    /\ cpaPc' = [cpaPc EXCEPT ![g] = "compare"]
    /\ UNCHANGED <<alertStates, evals>>

\* currentState is computed and compared with prevState; on a change the
\* alert / recovery is emitted, otherwise the call returns
CpaCompare(g) ==
    /\ cpaPc[g] = "compare"
    /\ LET m  == cpa[g].machine
           cs == CurrentState(cpa[g].temp, GetMinTemp(m), GetMaxTemp(m))
       IN /\ evals' = [evals EXCEPT ![cpa[g].idx].out = Emitted(cpa[g].prevState, cs)]
          /\ IF cs # cpa[g].prevState
             THEN /\ cpaPc' = [cpaPc EXCEPT ![g] = "lock2"]
                  /\ \E w \in RecordOutcomes(cpa[g].prevState, cs) :
                         cpa' = [cpa EXCEPT ![g].record = w]
             ELSE /\ cpaPc' = [cpaPc EXCEPT ![g] = "idle"]
                  /\ cpa' = [cpa EXCEPT ![g] = NoCall]
    /\ UNCHANGED <<alertStates, alertStatesMu>>

\* mutant of CpaLock2: the update is reached without taking the mutex
CpaLock2Unlocked(g) ==
    /\ cpaPc[g] = "lock2"
    /\ cpaPc' = [cpaPc EXCEPT ![g] = "locked2"]
    /\ UNCHANGED <<alertStates, alertStatesMu, cpa, evals>>

\* alertStatesMu.Lock() before the update
CpaLock2(g) ==
    /\ cpaPc[g] = "lock2"
    /\ alertStatesMu = "free"
    /\ alertStatesMu' = g
    /\ cpaPc' = [cpaPc EXCEPT ![g] = "locked2"]
    /\ UNCHANGED <<alertStates, cpa, evals>>

\* alertStates[alertKey] = currentState; alertStatesMu.Unlock(); return
CpaWrite(g) ==
    /\ cpaPc[g] = "locked2"
    /\ alertStatesMu = g
    /\ LET m == cpa[g].machine
       IN alertStates' = [alertStates EXCEPT ![AlertKey(m, cpa[g].probeNo)] =
                              CurrentState(cpa[g].temp, GetMinTemp(m), GetMaxTemp(m))]
    /\ alertStatesMu' = "free"
    /\ cpaPc' = [cpaPc EXCEPT ![g] = "idle"]
    /\ cpa' = [cpa EXCEPT ![g] = [NoCall EXCEPT !.record = cpa[g].record]]
    /\ UNCHANGED evals

InitAlert ==
    /\ alertStates = [k \in AlertKeys |-> ""]
    /\ alertStatesMu = "free"
    /\ cpaPc = [g \in Evaluators |-> "idle"]
    /\ cpa = [g \in Evaluators |-> NoCall]
    /\ evals = <<>>

AlertQuiescent == \A g \in Evaluators : cpaPc[g] = "idle"

\* A call made while no other evaluation is in progress.
CallAlone(g, m, t) ==
    /\ AlertQuiescent
    /\ CpaLock1(g, m, m.ProbeNo, t, MaxEvals)
    /\ UNCHANGED otherThanAlert

\* A call that may overlap the other loop's evaluation.
CallOverlapping(g, m, t) ==
    /\ CpaLock1(g, m, m.ProbeNo, t, MaxConcEvals)
    /\ UNCHANGED otherThanAlert

Read(g) == CpaRead(g) /\ UNCHANGED otherThanAlert

Compare(g) == CpaCompare(g) /\ UNCHANGED otherThanAlert

Lock2(g) == CpaLock2(g) /\ UNCHANGED otherThanAlert

Write(g) == CpaWrite(g) /\ UNCHANGED otherThanAlert

----------------------------------------------------------------------------
\* Scheduler lifecycle: Start, Stop, the two ticker goroutines

\* Goroutines that call Start: 1 is main.go's "go GlobalPollingService.Start()",
\* 2 is the goroutine of the TriggerPoll handler.
Starters == {1, 2}

\* Goroutines that call Stop (cleanup, or any other caller of the method).
Stoppers == {1, 2}

\* The ticker goroutines: the poll-and-save loop and the alert-check loop
\* launched by the n-th Start call that found the scheduler not running.
LoopIds == {"poll", "alert"} \X (1..MaxGen)

\* A cycle is run by a Start call (the initial poll) or by a ticker goroutine.
StartOwner(s) == <<"start", s>>

\* The cycles now in flight: pollAndSave or checkAlerts has been entered and
\* has not returned.
InFlight ==
    { StartOwner(s) : s \in { t \in Starters : startPc[t].pc = "initialPoll" } }
        \cup { l \in LoopIds : loopPc[l] = "cycle" }

\* The history of a step whose kind matters to a property below ...
Step(op, who) == [op |-> op, who |-> who, wasRunning |-> running]

\* ... and of any other step.
OtherStep == [op |-> "step", who |-> <<"none", 0>>, wasRunning |-> FALSE]

NotStarting == [pc |-> "idle", gen |-> 0]

\* NewPollingService
InitSched ==
    /\ running = FALSE
    /\ stopChan = "open"
    /\ wg = 0
    /\ crashed = FALSE
    /\ gen = 0
    /\ startPc = [s \in Starters |-> NotStarting]
    /\ loopPc = [l \in LoopIds |-> "none"]
    /\ stopPc = [x \in Stoppers |-> "idle"]
    /\ detached = 0
    /\ midFlight = {}
    /\ stoppedGen = 0
    /\ cleanGen = {}
    /\ lastStep = [op |-> "new", who |-> <<"start", 0>>, wasRunning |-> FALSE]

\* Start's guard: p.mu.Lock(); if p.running { unlock; return }
StartReturnsAtOnce(isRunning) == isRunning

\* Start, up to the release of p.mu: a no-op when already running, otherwise
\* running becomes true and the call goes on
Start(s) ==
    /\ ~crashed
    /\ startPc[s].pc = "idle"
    /\ lastStep' = Step("Start", StartOwner(s))
    /\ IF StartReturnsAtOnce(running)
       THEN UNCHANGED <<schedState, midFlight, stoppedGen, cleanGen>>
       ELSE /\ gen < MaxGen
            /\ running' = TRUE
            /\ gen' = gen + 1
            /\ cleanGen' = IF \A x \in Stoppers : stopPc[x] = "idle"
                           THEN cleanGen \cup {gen + 1} ELSE cleanGen
            /\ startPc' = [startPc EXCEPT ![s] = [pc |-> "init", gen |-> gen + 1]]
            /\ UNCHANGED <<stopChan, wg, crashed, loopPc, stopPc, detached, midFlight, stoppedGen>>
    /\ UNCHANGED otherThanSched

\* Start between the guard and the initial poll (logging, the 3 s sleep, the
\* database ping): it goes on to the initial pollAndSave
StartInit(s) ==
    /\ ~crashed
    /\ startPc[s].pc = "init"
    /\ startPc' = [startPc EXCEPT ![s].pc = "initialPoll"]
    /\ lastStep' = OtherStep
    /\ UNCHANGED cleanGen
    /\ UNCHANGED <<running, stopChan, wg, crashed, gen, loopPc, stopPc, detached, midFlight, stoppedGen>>
    /\ UNCHANGED otherThanSched

\* A panic in that part of Start: the deferred recover resets running; no
\* loop is launched
StartInitPanic(s) ==
    /\ ~crashed
    /\ startPc[s].pc = "init"
    /\ running' = FALSE
    /\ startPc' = [startPc EXCEPT ![s] = NotStarting]
    /\ lastStep' = OtherStep
    /\ UNCHANGED cleanGen
    /\ UNCHANGED <<stopChan, wg, crashed, gen, loopPc, stopPc, detached, midFlight, stoppedGen>>
    /\ UNCHANGED otherThanSched

\* The initial pollAndSave returns, normally or after recovering a panic
StartInitialPollEnd(s, panicked) ==
    /\ ~crashed
    /\ startPc[s].pc = "initialPoll"
    /\ startPc' = [startPc EXCEPT ![s].pc = "launchPoll"]
    /\ midFlight' = midFlight \ {StartOwner(s)}
    /\ UNCHANGED stoppedGen
    /\ lastStep' = IF panicked THEN Step("Panic", StartOwner(s)) ELSE OtherStep
    /\ UNCHANGED cleanGen
    /\ UNCHANGED <<running, stopChan, wg, crashed, gen, loopPc, stopPc, detached>>
    /\ UNCHANGED otherThanSched

\* p.wg.Add(1); go func() { poll ticker loop }
StartLaunchPoll(s) ==
    /\ ~crashed
    /\ startPc[s].pc = "launchPoll"
    /\ wg' = wg + 1
    /\ loopPc' = [loopPc EXCEPT ![<<"poll", startPc[s].gen>>] = "select"]
    /\ startPc' = [startPc EXCEPT ![s].pc = "launchAlert"]
    /\ lastStep' = OtherStep
    /\ UNCHANGED cleanGen
    /\ UNCHANGED <<running, stopChan, crashed, gen, stopPc, detached, midFlight, stoppedGen>>
    /\ UNCHANGED otherThanSched

\* p.wg.Add(1); go func() { alert ticker loop }; Start returns
StartLaunchAlert(s) ==
    /\ ~crashed
    /\ startPc[s].pc = "launchAlert"
    /\ wg' = wg + 1
    /\ loopPc' = [loopPc EXCEPT ![<<"alert", startPc[s].gen>>] = "select"]
    /\ startPc' = [startPc EXCEPT ![s] = NotStarting]
    /\ lastStep' = OtherStep
    /\ UNCHANGED cleanGen
    /\ UNCHANGED <<running, stopChan, crashed, gen, stopPc, detached, midFlight, stoppedGen>>
    /\ UNCHANGED otherThanSched

\* select: case <-ticker.C, the loop enters pollAndSave / checkAlerts. The
\* case can be chosen also when stopChan is closed (both cases ready).
LoopTick(l) ==
    /\ ~crashed
    /\ loopPc[l] = "select"
    /\ loopPc' = [loopPc EXCEPT ![l] = "cycle"]
    /\ lastStep' = OtherStep
    /\ UNCHANGED cleanGen
    /\ UNCHANGED <<running, stopChan, wg, crashed, gen, startPc, stopPc, detached, midFlight, stoppedGen>>
    /\ UNCHANGED otherThanSched

\* A cycle in flight starts a detached notification goroutine
\* (go SendTempLog / go SendAlert / go PublishTemperatureBatch)
SpawnDetached(o) ==
    /\ ~crashed
    /\ o \in InFlight
    /\ detached < MaxDetached
    /\ detached' = detached + 1
    /\ lastStep' = OtherStep
    /\ UNCHANGED cleanGen
    /\ UNCHANGED <<running, stopChan, wg, crashed, gen, startPc, loopPc, stopPc, midFlight, stoppedGen>>
    /\ UNCHANGED otherThanSched

\* A detached notification goroutine ends (sent, failed or timed out)
DetachedDone ==
    /\ ~crashed
    /\ detached > 0
    /\ detached' = detached - 1
    /\ lastStep' = OtherStep
    /\ UNCHANGED cleanGen
    /\ UNCHANGED <<running, stopChan, wg, crashed, gen, startPc, loopPc, stopPc, midFlight, stoppedGen>>
    /\ UNCHANGED otherThanSched

\* The cycle of a ticker goroutine returns normally
LoopCycleEnd(l) ==
    /\ ~crashed
    /\ loopPc[l] = "cycle"
    /\ loopPc' = [loopPc EXCEPT ![l] = "select"]
    /\ midFlight' = midFlight \ {l}
    /\ UNCHANGED stoppedGen
    /\ lastStep' = OtherStep
    /\ UNCHANGED cleanGen
    /\ UNCHANGED <<running, stopChan, wg, crashed, gen, startPc, stopPc, detached>>
    /\ UNCHANGED otherThanSched

\* Whether a panic raised inside the cycle of a loop of this kind is
\* recovered: pollAndSave defers a recover, checkAlerts and the goroutine
\* that calls it do not.
Recovers(kind) == kind = "poll"

\* A panic is raised inside the cycle of a ticker goroutine: recovered at
\* the cycle boundary, or it ends the process
LoopCyclePanic(l) ==
    /\ ~crashed
    /\ loopPc[l] = "cycle"
    /\ lastStep' = Step("Panic", l)
    /\ UNCHANGED cleanGen
    /\ IF Recovers(l[1])
       THEN /\ loopPc' = [loopPc EXCEPT ![l] = "select"]
            /\ midFlight' = midFlight \ {l}
            /\ UNCHANGED crashed
       ELSE /\ crashed' = TRUE
            /\ UNCHANGED <<loopPc, midFlight>>
    /\ UNCHANGED <<running, stopChan, wg, gen, startPc, stopPc, detached, stoppedGen>>
    /\ UNCHANGED otherThanSched

\* select: case <-p.stopChan, the goroutine returns (defer p.wg.Done())
LoopExit(l) ==
    /\ ~crashed
    /\ loopPc[l] = "select"
    /\ stopChan = "closed"
    /\ loopPc' = [loopPc EXCEPT ![l] = "exited"]
    /\ wg' = wg - 1
    /\ lastStep' = OtherStep
    /\ UNCHANGED cleanGen
    /\ UNCHANGED <<running, stopChan, crashed, gen, startPc, stopPc, detached, midFlight, stoppedGen>>
    /\ UNCHANGED otherThanSched

\* mutant of StopReturnsAtOnce: the guard is missing
StopNeverReturnsAtOnce(isRunning) == FALSE

\* Stop's guard: p.mu.Lock(); if !p.running { unlock; return }
StopReturnsAtOnce(isRunning) == ~isRunning

\* Stop, up to the release of p.mu: a no-op when not running, otherwise
\* running becomes false and the call goes on
Stop(x) ==
    /\ ~crashed
    /\ stopPc[x] = "idle"
    /\ lastStep' = Step("Stop", <<"stop", x>>)
    /\ UNCHANGED cleanGen
    /\ IF StopReturnsAtOnce(running)
       THEN UNCHANGED <<schedState, midFlight, stoppedGen>>
       ELSE /\ running' = FALSE
            /\ stopPc' = [stopPc EXCEPT ![x] = "close"]
            /\ midFlight' = InFlight
            /\ stoppedGen' = gen
            /\ UNCHANGED <<stopChan, wg, crashed, gen, startPc, loopPc, detached>>
    /\ UNCHANGED otherThanSched

\* close(p.stopChan): closing a closed channel panics, and nothing recovers
\* a panic of the goroutine that called Stop
StopClose(x) ==
    /\ ~crashed
    /\ stopPc[x] = "close"
    /\ lastStep' = OtherStep
    /\ UNCHANGED cleanGen
    /\ IF stopChan = "open"
       THEN /\ stopChan' = "closed"
            /\ stopPc' = [stopPc EXCEPT ![x] = "wait"]
            /\ UNCHANGED crashed
       ELSE /\ crashed' = TRUE
            /\ UNCHANGED <<stopChan, stopPc>>
    /\ UNCHANGED <<running, wg, gen, startPc, loopPc, detached, midFlight, stoppedGen>>
    /\ UNCHANGED otherThanSched

\* p.wg.Wait() returns; Stop returns
StopWait(x) ==
    /\ ~crashed
    /\ stopPc[x] = "wait"
    /\ wg = 0
    /\ stopPc' = [stopPc EXCEPT ![x] = "idle"]
    /\ lastStep' = Step("StopReturn", <<"stop", x>>)
    /\ UNCHANGED cleanGen
    /\ UNCHANGED <<running, stopChan, wg, crashed, gen, startPc, loopPc, detached, midFlight, stoppedGen>>
    /\ UNCHANGED otherThanSched

NextSched ==
    \/ \E s \in Starters : Start(s)
    \/ \E s \in Starters : StartInit(s)
    \/ \E s \in Starters : StartInitPanic(s)
    \/ \E s \in Starters, panicked \in BOOLEAN : StartInitialPollEnd(s, panicked)
    \/ \E s \in Starters : StartLaunchPoll(s)
    \/ \E s \in Starters : StartLaunchAlert(s)
    \/ \E l \in LoopIds : LoopTick(l)
    \/ \E o \in InFlight : SpawnDetached(o)
    \/ DetachedDone
    \/ \E l \in LoopIds : LoopCycleEnd(l)
    \/ \E l \in LoopIds : LoopCyclePanic(l)
    \/ \E l \in LoopIds : LoopExit(l)
    \/ \E x \in Stoppers : Stop(x)
    \/ \E x \in Stoppers : StopClose(x)
    \/ \E x \in Stoppers : StopWait(x)

----------------------------------------------------------------------------
\* Event fan-out: Subscribe, Unsubscribe, notifySubscribers and their
\* temperature twins

\* make(chan DataSavedEvent, 10) / make(chan []TemperatureUpdateEvent, 10)
ChanCap == 10

\* The channels that make() hands out, in the order it hands them out.
ChanOrder == <<"c1", "c2", "c3">>

Chans == { ChanOrder[i] : i \in 1..Len(ChanOrder) }

\* chan DataSavedEvent and chan []TemperatureUpdateEvent
Kinds == {"saved", "temperature"}

\* The fan-out never looks into an event.  For a subscriber an event is
\* named by its position among the events of the subscriber's kind that
\* were published since it subscribed: hist[c].seen counts them.
NoHist == [seen |-> 0, received |-> <<>>, sawClose |-> FALSE, missed |-> FALSE]

\* The goroutines that publish (the poll loop and the alert loop) and two
\* that unsubscribe (stream handlers)
Publishers == {"pollLoop", "alertLoop"}

Unsubscribers == {"handler1", "handler2"}

BusProcs == Publishers \cup Unsubscribers

\* What a publisher publishes
KindOf(p) == IF p = "pollLoop" THEN "saved" ELSE "temperature"

\* found is history: whether the search of Unsubscribe found the channel
NoBusCall == [pc |-> "idle", kind |-> "none", list |-> << >>, idx |-> 0, ch |-> "none",
              found |-> FALSE]

InitBus ==
    /\ subscribers = <<>>
    /\ temperatureSubscribers = <<>>
    /\ chans = [c \in Chans |-> [kind |-> "none", state |-> "unmade", buf |-> <<>>]]
    /\ busPanic = FALSE
    /\ hist = [c \in Chans |-> NoHist]
    /\ subMu = "free"
    /\ busPc = [p \in BusProcs |-> NoBusCall]

InList(subs, c) == \E i \in 1..Len(subs) : subs[i] = c

\* The channel the next make() returns.
IsFresh(c) ==
    \E i \in 1..Len(ChanOrder) :
        /\ ChanOrder[i] = c
        /\ chans[c].state = "unmade"
        /\ \A j \in 1..(i - 1) : chans[ChanOrder[j]].state # "unmade"

\* mutant of TrySend: a full buffer loses its oldest event to the new one
TrySendOverwrite(buf, ev) ==
    IF Len(buf) < ChanCap THEN Append(buf, ev) ELSE Append(Tail(buf), ev)

\* mutant of TrySend: the new event jumps the queue
TrySendFront(buf, ev) ==
    IF Len(buf) < ChanCap THEN <<ev>> \o buf ELSE buf

\* mutant of TrySend: the event is queued whatever the length of the queue
TrySendUnbounded(buf, ev) == Append(buf, ev)

\* select { case ch <- event: default: } on a channel of capacity ChanCap
TrySend(buf, ev) ==
    IF Len(buf) < ChanCap THEN Append(buf, ev) ELSE buf

\* mutant of WithoutFirst: the channel stays in the list
WithoutNothing(subs, c) == subs

\* mutant of WithoutFirst: the entries after the channel are lost with it
WithoutFirstAndRest(subs, c) ==
    LET i == CHOOSE j \in 1..Len(subs) :
                 subs[j] = c /\ \A k \in 1..(j - 1) : subs[k] # c
    IN SubSeq(subs, 1, i - 1)

\* append(subs[:i], subs[i+1:]...) for the first i with subs[i] == ch
WithoutFirst(subs, c) ==
    LET i == CHOOSE j \in 1..Len(subs) :
                 subs[j] = c /\ \A k \in 1..(j - 1) : subs[k] # c
    IN SubSeq(subs, 1, i - 1) \o SubSeq(subs, i + 1, Len(subs))

\* Subscribe / SubscribeTemperature: a new channel is made, appended to the
\* list and returned
SubscribeTo(subs, c, kind) ==
    /\ ~busPanic
    /\ IsFresh(c)
    /\ chans' = [chans EXCEPT ![c] = [kind |-> kind, state |-> "open", buf |-> <<>>]]
    /\ subs' = Append(subs, c)
    /\ UNCHANGED <<busPanic, hist>>

\* Unsubscribe / UnsubscribeTemperature of a channel handed out before: the
\* first list entry equal to it is removed and the channel closed; a
\* channel that is not in the list is left alone
UnsubscribeFrom(subs, c, kind) ==
    /\ ~busPanic
    /\ chans[c].kind = kind
    /\ IF InList(subs, c)
       THEN /\ subs' = WithoutFirst(subs, c)
            /\ chans' = [chans EXCEPT ![c].state = "closed"]
       ELSE UNCHANGED <<subs, chans>>
    /\ UNCHANGED <<busPanic, hist>>

\* notifySubscribers / notifyTemperatureSubscribers: under subMu, one
\* non-blocking send per channel of the list; a send on a closed channel
\* panics
Notify(subs, kind) ==
    LET listed == { c \in Chans : InList(subs, c) }
    IN /\ ~busPanic
       /\ \A c \in listed : hist[c].seen < MaxPublish
       /\ IF \E c \in listed : chans[c].state = "closed"
          THEN /\ busPanic' = TRUE
               /\ UNCHANGED <<chans, hist>>
          ELSE /\ busPanic' = FALSE
               /\ chans' = [c \in Chans |->
                              IF c \in listed
                              THEN [chans[c] EXCEPT !.buf = TrySend(chans[c].buf, hist[c].seen + 1)]
                              ELSE chans[c]]
               /\ hist' = [c \in Chans |->
                             IF c \in listed
                             THEN [hist[c] EXCEPT !.seen = hist[c].seen + 1]
                             ELSE IF chans[c].kind = kind /\ chans[c].state = "closed"
                                  THEN [hist[c] EXCEPT !.missed = TRUE]
                                  ELSE hist[c]]
       /\ UNCHANGED subs

Subscribe(c) ==
    /\ SubscribeTo(subscribers, c, "saved")
    /\ UNCHANGED <<temperatureSubscribers, otherThanBus>>

SubscribeTemperature(c) ==
    /\ SubscribeTo(temperatureSubscribers, c, "temperature")
    /\ UNCHANGED <<subscribers, otherThanBus>>

Unsubscribe(c) ==
    /\ UnsubscribeFrom(subscribers, c, "saved")
    /\ UNCHANGED <<temperatureSubscribers, otherThanBus>>

UnsubscribeTemperature(c) ==
    /\ UnsubscribeFrom(temperatureSubscribers, c, "temperature")
    /\ UNCHANGED <<subscribers, otherThanBus>>

notifySubscribers ==
    /\ Notify(subscribers, "saved")
    /\ UNCHANGED <<temperatureSubscribers, otherThanBus>>

notifyTemperatureSubscribers ==
    /\ Notify(temperatureSubscribers, "temperature")
    /\ UNCHANGED <<subscribers, otherThanBus>>

\* The reader of a channel receives its oldest buffered event
\* (case event, ok := <-eventChan with ok true)
Receive(c) ==
    /\ ~busPanic
    /\ chans[c].buf # <<>>
    /\ chans' = [chans EXCEPT ![c].buf = Tail(chans[c].buf)]
    /\ hist' = [hist EXCEPT ![c].received = Append(hist[c].received, Head(chans[c].buf))]
    /\ UNCHANGED <<subscribers, temperatureSubscribers, busPanic, otherThanBus>>

\* The reader of a closed and drained channel is released (ok false)
ReceiveClosed(c) ==
    /\ ~busPanic
    /\ chans[c].state = "closed"
    /\ chans[c].buf = <<>>
    /\ hist' = [hist EXCEPT ![c].sawClose = TRUE]
    /\ UNCHANGED <<busState, otherThanBus>>

\* The channels handed out where each operation of the fan-out is one step.
TwoChans == {"c1", "c2"}

NextBus ==
    \/ \E c \in TwoChans : Subscribe(c)
    \/ \E c \in TwoChans : SubscribeTemperature(c)
    \/ \E c \in Chans : Unsubscribe(c)
    \/ \E c \in Chans : UnsubscribeTemperature(c)
    \/ notifySubscribers
    \/ notifyTemperatureSubscribers
    \/ \E c \in Chans : Receive(c)
    \/ \E c \in Chans : ReceiveClosed(c)

----------------------------------------------------------------------------
\* The fan-out statement by statement, with p.subMu

\* mutant of SubMuLockable: Lock() does not wait
SubMuNeverWaits(mu) == TRUE

\* p.subMu.Lock() returns when the mutex is free
SubMuLockable(mu) == mu = "free"

SubscribersOf(kind) == IF kind = "saved" THEN subscribers ELSE temperatureSubscribers

\* Subscribe / SubscribeTemperature, whole, under the mutex
LockedSubscribe(c, kind) ==
    /\ SubMuLockable(subMu)
    /\ IF kind = "saved"
       THEN SubscribeTo(subscribers, c, kind) /\ UNCHANGED temperatureSubscribers
       ELSE SubscribeTo(temperatureSubscribers, c, kind) /\ UNCHANGED subscribers
    /\ UNCHANGED <<lockVars, alertVars, schedVars, cycleVars, parseVars, retryVars>>

\* notifySubscribers / notifyTemperatureSubscribers is called
NotifyCall(p) ==
    /\ ~busPanic
    /\ busPc[p].pc = "idle"
    /\ \A c \in Chans : InList(SubscribersOf(KindOf(p)), c) => hist[c].seen < MaxLockedPublish
    /\ busPc' = [busPc EXCEPT ![p].pc = "lock", ![p].kind = KindOf(p)]
    /\ UNCHANGED <<subMu, busVars, alertVars, schedVars, cycleVars, parseVars, retryVars>>

\* p.subMu.Lock(); "for _, ch := range" evaluates the slice once
NotifyLock(p) ==
    /\ ~busPanic
    /\ busPc[p].pc = "lock"
    /\ SubMuLockable(subMu)
    /\ subMu' = p
    /\ busPc' = [busPc EXCEPT ![p].pc = "range",
                              ![p].list = SubscribersOf(busPc[p].kind),
                              ![p].idx = 1]
    /\ UNCHANGED <<busVars, alertVars, schedVars, cycleVars, parseVars, retryVars>>

\* One pass of the loop: select { case ch <- event: default: }; a send on
\* a closed channel panics
NotifySend(p) ==
    /\ ~busPanic
    /\ busPc[p].pc = "range"
    /\ busPc[p].idx <= Len(busPc[p].list)
    /\ LET c == busPc[p].list[busPc[p].idx]
       IN IF chans[c].state = "closed"
          THEN /\ busPanic' = TRUE
               /\ UNCHANGED <<chans, hist, busPc>>
          ELSE /\ chans' = [chans EXCEPT ![c].buf = TrySend(@, hist[c].seen + 1)]
               /\ hist' = [hist EXCEPT ![c].seen = @ + 1]
               /\ busPc' = [busPc EXCEPT ![p].idx = @ + 1]
               /\ UNCHANGED busPanic
    /\ UNCHANGED <<subscribers, temperatureSubscribers, subMu>>
    /\ UNCHANGED <<alertVars, schedVars, cycleVars, parseVars, retryVars>>

\* The loop is over: the deferred p.subMu.Unlock()
NotifyUnlock(p) ==
    /\ ~busPanic
    /\ busPc[p].pc = "range"
    /\ busPc[p].idx > Len(busPc[p].list)
    /\ subMu' = "free"
    /\ busPc' = [busPc EXCEPT ![p] = NoBusCall]
    /\ UNCHANGED <<busVars, alertVars, schedVars, cycleVars, parseVars, retryVars>>

\* Unsubscribe / UnsubscribeTemperature is called with a channel that was
\* handed out by the Subscribe of the same kind
UnsubscribeCall(u, c) ==
    /\ ~busPanic
    /\ busPc[u].pc = "idle"
    /\ chans[c].kind \in Kinds
    /\ busPc' = [busPc EXCEPT ![u].pc = "lock", ![u].kind = chans[c].kind, ![u].ch = c]
    /\ UNCHANGED <<subMu, busVars, alertVars, schedVars, cycleVars, parseVars, retryVars>>

\* p.subMu.Lock()
UnsubscribeLock(u) ==
    /\ ~busPanic
    /\ busPc[u].pc = "lock"
    /\ SubMuLockable(subMu)
    /\ subMu' = u
    /\ busPc' = [busPc EXCEPT ![u].pc = "search"]
    /\ UNCHANGED <<busVars, alertVars, schedVars, cycleVars, parseVars, retryVars>>

\* The loop over the list: at the first entry equal to ch the entry is
\* cut out; if there is none the loop ends
UnsubscribeRemove(u) ==
    /\ ~busPanic
    /\ busPc[u].pc = "search"
    /\ LET c == busPc[u].ch
           subs == SubscribersOf(busPc[u].kind)
       IN IF InList(subs, c)
          THEN /\ IF busPc[u].kind = "saved"
                  THEN /\ subscribers' = WithoutFirst(subs, c)
                       /\ UNCHANGED temperatureSubscribers
                  ELSE /\ temperatureSubscribers' = WithoutFirst(subs, c)
                       /\ UNCHANGED subscribers
               /\ busPc' = [busPc EXCEPT ![u].pc = "close", ![u].found = TRUE]
          ELSE /\ busPc' = [busPc EXCEPT ![u].pc = "unlock"]
               /\ UNCHANGED <<subscribers, temperatureSubscribers>>
    /\ UNCHANGED <<chans, busPanic, hist, subMu>>
    /\ UNCHANGED <<alertVars, schedVars, cycleVars, parseVars, retryVars>>

\* close(ch); break.  Closing a closed channel panics.
UnsubscribeClose(u) ==
    /\ ~busPanic
    /\ busPc[u].pc = "close"
    /\ IF chans[busPc[u].ch].state = "closed"
       THEN /\ busPanic' = TRUE
            /\ UNCHANGED <<chans, busPc>>
       ELSE /\ chans' = [chans EXCEPT ![busPc[u].ch].state = "closed"]
            /\ busPc' = [busPc EXCEPT ![u].pc = "unlock"]
            /\ UNCHANGED busPanic
    /\ UNCHANGED <<subscribers, temperatureSubscribers, hist, subMu>>
    /\ UNCHANGED <<alertVars, schedVars, cycleVars, parseVars, retryVars>>

\* The deferred p.subMu.Unlock()
UnsubscribeUnlock(u) ==
    /\ ~busPanic
    /\ busPc[u].pc = "unlock"
    /\ subMu' = "free"
    /\ busPc' = [busPc EXCEPT ![u] = NoBusCall]
    /\ UNCHANGED <<busVars, alertVars, schedVars, cycleVars, parseVars, retryVars>>

NextBusLocked ==
    \/ \E c \in Chans, kind \in Kinds : LockedSubscribe(c, kind)
    \/ \E p \in Publishers : NotifyCall(p)
    \/ \E p \in Publishers : NotifyLock(p)
    \/ \E p \in Publishers : NotifySend(p)
    \/ \E p \in Publishers : NotifyUnlock(p)
    \/ \E u \in Unsubscribers, c \in Chans : UnsubscribeCall(u, c)
    \/ \E u \in Unsubscribers : UnsubscribeLock(u)
    \/ \E u \in Unsubscribers : UnsubscribeRemove(u)
    \/ \E u \in Unsubscribers : UnsubscribeClose(u)
    \/ \E u \in Unsubscribers : UnsubscribeUnlock(u)

----------------------------------------------------------------------------
\* The poll-and-save cycle (pollAndSave) and the alert-check cycle
\* (checkAlerts): what they do with each reading of a response

\* const MaxSensorTemp = 80.0, in hundredths
MaxSensorTemp == 8000

\* int(x) of Go: truncation toward zero, here of a / 2
HalfTowardZero(a) == IF a >= 0 THEN a \div 2 ELSE -((-a) \div 2)

\* roundTo2Decimal(val) = float64(int(val*100+0.5)) / 100, on val given in
\* hundredths h: int(h + 0.5)
roundTo2Decimal(h) == HalfTowardZero(2 * h + 1)

\* Raw values probe 1 reports: the sentinel 0xFFFF, 18.00, 20.00, 30.00,
\* 32.00 and 81.00 degrees; and probe 2: 79.50 and 79.60 degrees.
Raws1 == {65535, 5800, 6000, 7000, 7200, 12100}

Raws2 == {11950, 11960}

\* The ProbeData the decoder builds for a raw value
ProbeData(probeNo, raw) ==
    [ProbeNo |-> probeNo, RealValue |-> raw, TempValue |-> roundTo2Decimal(raw - 4000)]

\* The readings of a response: decoded ones, and one whose raw value is -1.
Readings ==
    { ProbeData(1, raw) : raw \in Raws1 } \cup { ProbeData(2, raw) : raw \in Raws2 }
        \cup { [ProbeNo |-> 1, RealValue |-> -1, TempValue |-> 2500] }

\* mutant of IsBrokenSensor: only 0xFFFF is tested
IsBrokenSensorFFFFOnly(pd) == pd.RealValue = 65535

\* probeData.RealValue == 65535 || probeData.RealValue == -1
IsBrokenSensor(pd) == pd.RealValue = 65535 \/ pd.RealValue = -1

\* adjustedTemp := probeData.TempValue + probeConfig.GetAdjTemp(), rounded to
\* two decimals
AdjustedTemp(pd, m) == pd.TempValue + GetAdjTemp(m)

\* mutant of ExceedsCeiling: the ceiling is the probe's configured maximum
ExceedsConfiguredMax(t, m) == t > GetMaxTemp(m)

\* adjustedTemp > MaxSensorTemp
ExceedsCeiling(t, m) == t > MaxSensorTemp

\* tempStatus of pollAndSave
TempStatusPoll(t, m) ==
    IF t < GetMinTemp(m) THEN "L" ELSE IF t > GetMaxTemp(m) THEN "H" ELSE "N"

\* tempStatus of checkAlerts
TempStatusAlert(t, m) ==
    IF t < GetMinTemp(m) THEN "L" ELSE IF t > GetMaxTemp(m) THEN "H" ELSE "N"

\* The locals of a cycle; passed and dups are history: the readings of the
\* cycle that passed both filters, and its writes refused as duplicates.
NoCycle == [active |-> FALSE, seen |-> 0, savedCount |-> 0, errorCount |-> 0,
            payloads |-> <<>>, passed |-> 0, dups |-> 0]

NoReading == [g |-> "", verdict |-> "none", write |-> "none"]

NoRow == [key |-> <<"", 0>>, TempValue |-> 0, RealValue |-> 0, Status |-> ""]

InitCycle ==
    /\ cycle = [g \in Evaluators |-> NoCycle]
    /\ tempLogs = [count |-> 0, newest |-> NoRow]
    /\ lastReading = NoReading
    /\ lastEvent = [kind |-> "none", saved |-> 0, errors |-> 0, entries |-> <<>>]
    /\ sends = [launched |-> 0, running |-> 0, failed |-> 0]

ReadingsTaken == cycle["poll"].seen + cycle["alert"].seen

\* pollAndSave / checkAlerts is entered, while the other loop is between
\* cycles: machines loaded, counters zero
CycleBegin(g) ==
    /\ \A h \in Evaluators : ~cycle[h].active
    /\ cpaPc[g] = "idle"
    /\ ReadingsTaken < MaxReadings
    /\ cycle' = [cycle EXCEPT ![g] = [NoCycle EXCEPT !.active = TRUE,
                                                     !.seen = cycle[g].seen]]
    /\ lastReading' = NoReading
    /\ UNCHANGED <<tempLogs, lastEvent, sends, alertVars, schedVars, busVars, parseVars, lockVars, retryVars>>

\* savedCount after database.DB.Create(&tempLog) had the outcome w
SavedAfter(n, w) == IF w = "ok" THEN n + 1 ELSE n

\* mutant of ErrorsAfter: a duplicate key counts as an error
ErrorsAfterCountingDuplicates(n, w) == IF w \in {"fail", "dup"} THEN n + 1 ELSE n

\* errorCount after database.DB.Create(&tempLog) had the outcome w: a
\* "Duplicate entry" / 1062 error is not counted
ErrorsAfter(n, w) == IF w = "fail" THEN n + 1 ELSE n

\* mqttPayloads after a reading of checkAlerts, connected being the value
\* of p.mqttService != nil && p.mqttService.IsConnected()
PayloadsAfter(payloads, entry, connected) ==
    IF connected THEN Append(payloads, entry) ELSE payloads

\* The configuration modelled has LEGACY_API_URL and LEGACY_API_TOKEN set.
IsLegacyAPIEnabled == TRUE

\* mutant of LaunchesSend: the send is launched after every write
LaunchesSendAlways(w) == w # "none"

\* "go func(...) { SendTempLog(pl) }" is reached in the branch of a
\* successful write, if the legacy API is configured
LaunchesSend(w) == w = "ok" /\ IsLegacyAPIEnabled

\* _, hasConfig := probeConfigs[probeNo]
HasConfig(probes, probeNo) == \E i \in 1..Len(probes) : probes[i].ProbeNo = probeNo

\* mutant of FallbackConfig: the borrowed row keeps its own probe number
FallbackConfigUnnumbered(probes, probeNo) == probes[1]

\* probeConfig = probes[0]; probeConfig.ProbeNo = probeData.ProbeNo
FallbackConfig(probes, probeNo) == [probes[1] EXCEPT !.ProbeNo = probeNo]

\* probeConfigs[probeNo] (the map keeps the last row of a probe number), or
\* the fallback when the endpoint has no row for it
ProbeConfigOf(probes, probeNo) ==
    IF HasConfig(probes, probeNo)
    THEN probes[CHOOSE i \in 1..Len(probes) :
                    /\ probes[i].ProbeNo = probeNo
                    /\ \A j \in (i + 1)..Len(probes) : probes[j].ProbeNo # probeNo]
    ELSE FallbackConfig(probes, probeNo)

\* The rows a reading can be processed with
ProbeConfigs ==
    { ProbeConfigOf(ProbesAt(ip), n) : ip \in Endpoints, n \in DecodedProbeNos }

\* mutant of ReachesCheckProbeAlert: the call is in the branch of a
\* successful write
ReachesCheckProbeAlertWhenSaved(w) == w \in {"ok", "none"}

\* p.checkProbeAlert(probeConfig, ...) follows the if / else on the outcome
\* of the write: every outcome reaches it
ReachesCheckProbeAlert(w) == w \in {"ok", "dup", "fail", "none"}

\* The body of "for _, probeData := range response.Probes" for one reading
\* pd of the probe configured by m, up to and including the entry into
\* checkProbeAlert.  w is the outcome of database.DB.Create(&tempLog),
\* mqtt that of p.mqttService.IsConnected().
CycleReading(g, m, pd, w, mqtt) ==
    /\ cycle[g].active
    /\ cpaPc[g] = "idle"
    /\ ReadingsTaken < MaxReadings
    /\ \E ip \in Endpoints : m = ProbeConfigOf(ProbesAt(ip), pd.ProbeNo)
    /\ LET t == AdjustedTemp(pd, m)
           skipped == IsBrokenSensor(pd) \/ ExceedsCeiling(t, m)
           verdict == IF IsBrokenSensor(pd) THEN "sentinel"
                      ELSE IF ExceedsCeiling(t, m) THEN "ceiling" ELSE "processed"
           row == [key |-> AlertKey(m, pd.ProbeNo), TempValue |-> t,
                   RealValue |-> pd.RealValue, Status |-> TempStatusPoll(t, m)]
           entry == [key |-> AlertKey(m, pd.ProbeNo), TempValue |-> t,
                     Status |-> TempStatusAlert(t, m)]
       IN /\ (skipped \/ g = "alert") => w = "none"
          /\ (~skipped /\ g = "poll") => w \in {"ok", "dup", "fail"}
          /\ (skipped \/ g = "poll") => ~mqtt
          /\ lastReading' = [g |-> g, verdict |-> verdict, write |-> w]
          /\ IF skipped
             THEN /\ cycle' = [cycle EXCEPT ![g].seen = @ + 1]
                  /\ UNCHANGED <<tempLogs, sends, alertVars>>
             ELSE /\ cycle' = [cycle EXCEPT
                                 ![g].seen = @ + 1,
                                 ![g].savedCount = SavedAfter(@, w),
                                 ![g].errorCount = ErrorsAfter(@, w),
                                 ![g].payloads = PayloadsAfter(@, entry, mqtt),
                                 ![g].passed = @ + 1,
                                 ![g].dups = IF w = "dup" THEN @ + 1 ELSE @]
                  /\ tempLogs' = IF w = "ok"
                                 THEN [count |-> tempLogs.count + 1, newest |-> row]
                                 ELSE tempLogs
                  /\ sends' = IF LaunchesSend(w)
                              THEN [sends EXCEPT !.launched = @ + 1, !.running = @ + 1]
                              ELSE sends
                  /\ IF ReachesCheckProbeAlert(w)
                     THEN CpaLock1(g, m, pd.ProbeNo, t, MaxReadings)
                     ELSE UNCHANGED alertVars
    /\ UNCHANGED <<lastEvent, schedVars, busVars, parseVars, lockVars, retryVars>>

\* The end of the cycle: pollAndSave hands DataSavedEvent{savedCount,
\* errorCount} to notifySubscribers, checkAlerts hands its entries to
\* notifyTemperatureSubscribers if there are any
CycleEnd(g) ==
    /\ cycle[g].active
    /\ cpaPc[g] = "idle"
    /\ cycle' = [cycle EXCEPT ![g] = [NoCycle EXCEPT !.seen = cycle[g].seen]]
    /\ lastReading' = NoReading
    /\ IF g = "poll"
       THEN /\ Notify(subscribers, "saved")
            /\ lastEvent' = [kind |-> "saved", saved |-> cycle[g].savedCount,
                             errors |-> cycle[g].errorCount, entries |-> <<>>]
            /\ UNCHANGED temperatureSubscribers
       ELSE IF cycle[g].payloads # <<>>
       THEN /\ Notify(temperatureSubscribers, "temperature")
            /\ lastEvent' = [kind |-> "temperature", saved |-> 0, errors |-> 0,
                             entries |-> cycle[g].payloads]
            /\ UNCHANGED subscribers
       ELSE UNCHANGED <<lastEvent, busVars>>
    /\ UNCHANGED <<tempLogs, sends, alertVars, schedVars, parseVars, lockVars, retryVars>>

\* A detached goroutine's SendTempLog returns, with an error or without:
\* the error is logged
SendTempLogReturns(ok) ==
    /\ sends.running > 0
    /\ sends' = [sends EXCEPT !.running = @ - 1,
                              !.failed = IF ok THEN @ ELSE @ + 1]
    /\ UNCHANGED <<cycle, tempLogs, lastReading, lastEvent>>
    /\ UNCHANGED <<alertVars, schedVars, busVars, parseVars, lockVars, retryVars>>

\* A step of checkProbeAlert inside a cycle
CycleAlertStep(g) ==
    /\ cycle[g].active
    /\ CpaRead(g) \/ CpaCompare(g) \/ CpaLock2(g) \/ CpaWrite(g)
    /\ lastReading' = lastReading
    /\ UNCHANGED <<cycle, tempLogs, lastEvent, sends, schedVars, busVars, parseVars, lockVars, retryVars>>

NextCycle ==
    \/ \E g \in Evaluators : CycleBegin(g)
    \/ \E g \in Evaluators, m \in ProbeConfigs, pd \in Readings,
          w \in {"none", "ok", "dup", "fail"}, mqtt \in BOOLEAN :
            CycleReading(g, m, pd, w, mqtt)
    \/ \E g \in Evaluators : CycleAlertStep(g)
    \/ \E g \in Evaluators : CycleEnd(g)
    \/ \E ok \in BOOLEAN : SendTempLogReturns(ok)

----------------------------------------------------------------------------
\* The frame decoder: parseHexResponse

\* Frames offered to the decoder: a header (right, or wrong in one byte),
\* the indicator byte, the separator of probe 1 (0x5A or not), two value
\* bytes, the separator of probe 2, two value bytes, 0x5A, 0x0D and
\* padding, cut or padded to every length up to MaxFrameLen.
Headers == { <<65, 65, 90>>, <<66, 65, 90>>, <<65, 66, 90>>, <<65, 65, 91>> }

Indicators == {0, 1, 3}

Separators == {90, 0}

\* 0x19A3 (25.63), 0xFFFF (the sentinel), 0x0FA0 (0.00), 0x0F9F (one
\* hundredth below zero), 0x0000 (the lowest raw value)
Values1 == { <<25, 163>>, <<255, 255>>, <<15, 160>>, <<15, 159>>, <<0, 0>> }

\* 0x19AE (25.74), 0x0D00 (its first byte ends a one-probe frame), 0xFFFF
Values2 == { <<25, 174>>, <<13, 0>>, <<255, 255>> }

Frames ==
    { SubSeq(h \o <<ind, s4>> \o v1 \o <<s7>> \o v2 \o <<90, 13>>
                 \o [i \in 1..(MaxFrameLen - 12) |-> 0], 1, n) :
        h \in Headers, ind \in Indicators, s4 \in Separators, v1 \in Values1,
        s7 \in Separators, v2 \in Values2, n \in 0..MaxFrameLen }

NotRead == <<-1>>

NotParsed == [probes |-> <<>>, panicked |-> FALSE, done |-> FALSE]

\* data[i] (i counted from 0), for i < len(data)
ByteAt(data, i) == data[i + 1]

\* mutant of TooShort: the length is not checked
TooShortNever(data) == FALSE

\* len(data) < 9
TooShort(data) == Len(data) < 9

\* data[0] != 0x41 || data[1] != 0x41 || data[2] != 0x5a, evaluated from
\* the left; it reads past the end of a buffer that is shorter than the
\* part of the header it gets to compare
HeaderPastEnd(data) ==
    \/ Len(data) = 0
    \/ Len(data) = 1 /\ ByteAt(data, 0) = 65
    \/ Len(data) = 2 /\ ByteAt(data, 0) = 65 /\ ByteAt(data, 1) = 65

BadHeader(data) ==
    \/ ByteAt(data, 0) # 65
    \/ ByteAt(data, 1) # 65
    \/ ByteAt(data, 2) # 90

\* mutant of HasProbe2: only the indicator byte selects two-probe mode
HasProbe2IndicatorOnly(data) == ByteAt(data, 3) = 3

\* hasProbe2: true for 12 bytes, else true for indicator 0x03, else false
HasProbe2(data) ==
    IF Len(data) = 12 THEN TRUE
    ELSE IF ByteAt(data, 3) = 3 THEN TRUE
    ELSE FALSE

\* mutant of RawValue: the low byte first
RawValueLowFirst(hi, lo) == lo * 256 + hi

\* int(hi)<<8 | int(lo)
RawValue(hi, lo) == hi * 256 + lo

\* mutant of Probe2Bytes: the value is taken from bytes [7] and [8]
Probe2BytesShifted(data) == <<ByteAt(data, 7), ByteAt(data, 8)>>

\* data[8], data[9]
Probe2Bytes(data) == <<ByteAt(data, 8), ByteAt(data, 9)>>

\* The statements after the header check read data[3], data[4] (behind
\* len(data) >= 7, or in the log line of the else branch), data[5], data[6]
\* and, behind len(data) >= 10, data[7] to data[9].
BodyPastEnd(data) == Len(data) < 5

\* mutant of Probe1Of: the separator at [4] is not looked at
Probe1OfUnchecked(data) ==
    IF Len(data) >= 7
    THEN << ProbeData(1, RawValue(ByteAt(data, 5), ByteAt(data, 6))) >>
    ELSE << >>

\* "Parse Probe 1": the readings after it
Probe1Of(data) ==
    IF Len(data) >= 7 /\ ByteAt(data, 4) = 90
    THEN << ProbeData(1, RawValue(ByteAt(data, 5), ByteAt(data, 6))) >>
    ELSE << >>

\* "Parse Probe 2 if exists": the readings it appends
Probe2Of(data) ==
    IF HasProbe2(data) /\ Len(data) >= 10 /\ ByteAt(data, 7) = 90
    THEN << ProbeData(2, RawValue(Probe2Bytes(data)[1], Probe2Bytes(data)[2])) >>
    ELSE << >>

Returned(probes) == [probes |-> probes, panicked |-> FALSE, done |-> TRUE]

Panicked == [probes |-> <<>>, panicked |-> TRUE, done |-> TRUE]

parseHexResponse(data) ==
    IF TooShort(data) THEN Returned(<< >>)
    ELSE IF HeaderPastEnd(data) THEN Panicked
    ELSE IF BadHeader(data) THEN Returned(<< >>)
    ELSE IF BodyPastEnd(data) THEN Panicked
    ELSE Returned(Probe1Of(data) \o Probe2Of(data))

NoRequest == [pc |-> "idle", Connected |-> FALSE, Error |-> "", endedBy |-> "none",
              stream |-> << >>]

InitParse ==
    /\ frame = NotRead
    /\ parsed = NotParsed
    /\ req = NoRequest

\* The read loop of RequestFromTCPServer has collected the bytes f
ReadResponse(f) ==
    /\ frame = NotRead
    /\ frame' = f
    /\ parsed' = NotParsed
    /\ UNCHANGED <<req, otherThanParse>>

\* parseHexResponse(dataBuffer, ip)
Parse ==
    /\ frame # NotRead
    /\ ~parsed.done
    /\ parsed' = parseHexResponse(frame)
    /\ UNCHANGED <<frame, req, otherThanParse>>

NextParse ==
    \/ \E f \in Frames : ReadResponse(f)
    \/ Parse

----------------------------------------------------------------------------
\* A request to a device (RequestFromTCPServer)

\* What a device sends before it goes silent or the connection ends:
\* nothing, a one-probe or two-probe frame, or the first 8 or 9 bytes of one.
Streams ==
    { f \in Frames :
        /\ Len(f) \in {0, 8, 9, 12}
        /\ Len(f) > 0 => /\ SubSeq(f, 1, 3) = <<65, 65, 90>>
                         /\ f[4] \in {0, 3}
                         /\ SubSeq(f, 5, 8) = <<90, 25, 163, 90>> }

\* Why conn.Read returned an error
ReadErrors == {"timeout", "eof", "reset"}

\* mutant of EndsFrame: a 0x0D anywhere in the buffer ends the frame
EndsFrameAnywhere(dataBuffer) == \E i \in 1..Len(dataBuffer) : dataBuffer[i] = 13

\* len(dataBuffer) > 0 && dataBuffer[len(dataBuffer)-1] == 0x0D
EndsFrame(dataBuffer) == Len(dataBuffer) > 0 /\ dataBuffer[Len(dataBuffer)] = 13

\* result.Probes at the return: []ProbeData{} unless len(dataBuffer) > 0
ProbesOf(dataBuffer) ==
    IF Len(dataBuffer) > 0 THEN parseHexResponse(dataBuffer) ELSE Returned(<< >>)

\* net.DialTimeout: on an error the result is returned with Error set;
\* otherwise Connected is set.  s is what the device is going to send.
Dial(ok, s) ==
    /\ req.pc = "idle"
    /\ req' = IF ok
              THEN [req EXCEPT !.pc = "write", !.Connected = TRUE, !.stream = s]
              ELSE [req EXCEPT !.pc = "returned", !.Error = "Connection failed"]
    /\ parsed' = IF ok THEN parsed ELSE Returned(<< >>)
    /\ UNCHANGED <<frame, otherThanParse>>

\* conn.Write(command + "\r"), and "var dataBuffer []byte" after it
WriteCommand(ok) ==
    /\ req.pc = "write"
    /\ req' = IF ok THEN [req EXCEPT !.pc = "read"]
              ELSE [req EXCEPT !.pc = "returned", !.Error = "Write failed"]
    /\ frame' = IF ok THEN << >> ELSE frame
    /\ parsed' = IF ok THEN parsed ELSE Returned(<< >>)
    /\ UNCHANGED otherThanParse

\* One pass of the read loop in which conn.Read delivers the next n bytes
ReadBytes(n) ==
    /\ req.pc = "read"
    /\ n \in 1..(Len(req.stream) - Len(frame))
    /\ frame' = frame \o SubSeq(req.stream, Len(frame) + 1, Len(frame) + n)
    /\ req' = IF EndsFrame(frame')
              THEN [req EXCEPT !.pc = "after", !.endedBy = "marker"]
              ELSE req
    /\ UNCHANGED <<parsed, otherThanParse>>

\* One pass of the read loop in which conn.Read returns an error: break
ReadFails(e) ==
    /\ req.pc = "read"
    /\ req' = [req EXCEPT !.pc = "after", !.endedBy = e]
    /\ UNCHANGED <<frame, parsed, otherThanParse>>

\* After the loop: the decoder is called if anything was received
ReturnResult ==
    /\ req.pc = "after"
    /\ parsed' = ProbesOf(frame)
    /\ req' = [req EXCEPT !.pc = "returned"]
    /\ UNCHANGED <<frame, otherThanParse>>

NextRequest ==
    \/ \E ok \in BOOLEAN, s \in Streams : Dial(ok, s)
    \/ \E ok \in BOOLEAN : WriteCommand(ok)
    \/ \E n \in 1..MaxFrameLen : ReadBytes(n)
    \/ \E e \in ReadErrors : ReadFails(e)
    \/ ReturnResult

----------------------------------------------------------------------------
\* Retries at startup (utils.RetryWithBackoff)

\* What fn returns: nil or an error
FnResults == {"nil", "e1", "e2"}

\* calls, results and slept are history: the number of calls of fn, what
\* they returned, and the delays slept, in order.
NoRetry == [pc |-> "idle", maxAttempts |-> 0, initialDelay |-> 0, maxDelay |-> 0,
            attempt |-> 0, delay |-> 0, lastErr |-> "nil", result |-> "none",
            calls |-> 0, results |-> << >>, slept |-> << >>]

InitRetry == retry = NoRetry

\* delay *= 2; if delay > maxDelay { delay = maxDelay }
Backoff(delay, maxDelay) == IF 2 * delay > maxDelay THEN maxDelay ELSE 2 * delay

\* RetryWithBackoff(operation, fn, maxAttempts, initialDelay, maxDelay) is
\* entered: var lastErr error; delay := initialDelay; attempt := 1
RetryCall(n, d0, dm) ==
    /\ retry.pc = "idle"
    /\ retry' = [retry EXCEPT !.pc = "loop", !.maxAttempts = n, !.initialDelay = d0,
                              !.maxDelay = dm, !.attempt = 1, !.delay = d0]
    /\ UNCHANGED <<alertVars, schedVars, busVars, cycleVars, parseVars, lockVars>>

\* One pass of the loop body up to time.Sleep: fn() returns r; nil is
\* returned at once, an error is kept in lastErr and, unless this was the
\* last attempt, the sleep is entered
RetryAttempt(r) ==
    /\ retry.pc = "loop"
    /\ retry.attempt <= retry.maxAttempts
    /\ retry' =
         IF r = "nil"
         THEN [retry EXCEPT !.pc = "returned", !.result = "nil",
                            !.calls = @ + 1, !.results = Append(@, r)]
         ELSE IF retry.attempt < retry.maxAttempts
         THEN [retry EXCEPT !.pc = "sleep", !.lastErr = r,
                            !.calls = @ + 1, !.results = Append(@, r)]
         ELSE [retry EXCEPT !.attempt = @ + 1, !.lastErr = r,
                            !.calls = @ + 1, !.results = Append(@, r)]
    /\ UNCHANGED <<alertVars, schedVars, busVars, cycleVars, parseVars, lockVars>>

\* time.Sleep(delay) returns; the delay is doubled and capped; attempt++
RetrySleep ==
    /\ retry.pc = "sleep"
    /\ retry' = [retry EXCEPT !.pc = "loop", !.slept = Append(@, retry.delay),
                              !.delay = Backoff(@, retry.maxDelay),
                              !.attempt = @ + 1]
    /\ UNCHANGED <<alertVars, schedVars, busVars, cycleVars, parseVars, lockVars>>

\* attempt <= maxAttempts is false: return lastErr
RetryGiveUp ==
    /\ retry.pc = "loop"
    /\ retry.attempt > retry.maxAttempts
    /\ retry' = [retry EXCEPT !.pc = "returned", !.result = retry.lastErr]
    /\ UNCHANGED <<alertVars, schedVars, busVars, cycleVars, parseVars, lockVars>>

NextRetry ==
    \/ \E n \in 0..MaxAttempts, d0 \in 1..MaxDelaySecs, dm \in 1..MaxDelaySecs :
          RetryCall(n, d0, dm)
    \/ \E r \in FnResults : RetryAttempt(r)
    \/ RetrySleep
    \/ RetryGiveUp

----------------------------------------------------------------------------
\* Specifications

Init == InitAlert /\ InitSched /\ InitBus /\ InitCycle /\ InitParse /\ InitRetry

NextAlertSeq ==
    \/ \E g \in Evaluators, m \in Machines, t \in Temps : CallAlone(g, m, t)
    \/ \E g \in Evaluators : Read(g)
    \/ \E g \in Evaluators : Compare(g)
    \/ \E g \in Evaluators : Lock2(g)
    \/ \E g \in Evaluators : Write(g)

NextAlert ==
    \/ \E g \in Evaluators, m \in Machines, t \in Temps : CallOverlapping(g, m, t)
    \/ \E g \in Evaluators : Read(g)
    \/ \E g \in Evaluators : Compare(g)
    \/ \E g \in Evaluators : Lock2(g)
    \/ \E g \in Evaluators : Write(g)

\* Evaluations applied one after another.
SpecAlertSeq == Init /\ [][NextAlertSeq]_vars

\* The two loops evaluating concurrently.
SpecAlert == Init /\ [][NextAlert]_vars

\* The scheduler's lifecycle under any order of Start and Stop calls.
SpecSched == Init /\ [][NextSched]_vars

\* The fan-out under any order of subscriptions, publications and reads.
SpecBus == Init /\ [][NextBus]_vars

\* The two loops running their cycles, one cycle at a time, over any
\* responses of the devices.
SpecCycle == Init /\ [][NextCycle]_vars

\* The decoder applied to any frame.
SpecParse == Init /\ [][NextParse]_vars

\* One request to a device.
SpecRequest == Init /\ [][NextRequest]_vars

\* Publishers and unsubscribers interleaved statement by statement.
SpecBusLocked == Init /\ [][NextBusLocked]_vars

\* One call of RetryWithBackoff.
SpecRetry == Init /\ [][NextRetry]_vars

\* The same, where a step that can be taken is taken: fn returns, and
\* time.Sleep returns.
SpecRetryLive == SpecRetry /\ WF_vars(NextRetry)

----------------------------------------------------------------------------
\* Properties of the alert state tracker

\* The evaluations of one key, in call order.
EvalsOf(k) == SelectSeq(evals, LAMBDA e : e.key = k)

RECURSIVE Changes(_, _)
\* Number of adjacent-pair changes in the candidate sequence s when it is
\* preceded by the classification prev.
Changes(prev, s) ==
    IF s = <<>> THEN 0
    ELSE (IF Head(s).cand # prev THEN 1 ELSE 0) + Changes(Head(s).cand, Tail(s))

EmittedCount(k) ==
    Len(SelectSeq(EvalsOf(k), LAMBDA e : e.out \in {"alert", "recovery"}))

\* C1: when evaluations are applied one after another, for every probe key
\* the number of transitions emitted so far (alerts plus recoveries) equals
\* the number of adjacent-pair changes in the key's sequence of candidate
\* classifications, the unseen key counting as Normal.
C1_TransitionsEqualChanges ==
    AlertQuiescent => \A k \in AlertKeys : EmittedCount(k) = Changes("N", EvalsOf(k))

\* C1 witness: the sequence Normal, Normal, High, High, Normal has been
\* applied to one key and has emitted an alert and then a recovery.
C1_Witness ==
    /\ AlertQuiescent
    /\ \E k \in AlertKeys :
          /\ Len(EvalsOf(k)) = 5
          /\ [i \in 1..5 |-> EvalsOf(k)[i].cand] = <<"N", "N", "H", "H", "N">>
          /\ [i \in 1..5 |-> EvalsOf(k)[i].out]
                 = <<"none", "none", "alert", "none", "recovery">>

Perms(n) == { p \in [1..n -> 1..n] : \A i, j \in 1..n : p[i] = p[j] => i = j }

RECURSIVE SerialRun(_, _, _)
\* The evaluations taken one at a time in the order p, from position i and
\* stored states st: TRUE iff each emits what was recorded for it and the
\* final stored states are the current ones.
SerialRun(p, i, st) ==
    IF i > Len(evals) THEN st = alertStates
    ELSE LET e == evals[p[i]]
         IN /\ e.out = Emitted(st[e.key], e.cand)
            /\ SerialRun(p, i + 1, [st EXCEPT ![e.key] = e.cand])

\* C2: every evaluation is one atomic read-modify-write, so once the
\* overlapping evaluations of the two loops have returned, the transitions
\* they emitted and the stored classifications are those of the same
\* evaluations taken in some serial order.
C2_Serializable ==
    AlertQuiescent =>
        \E p \in Perms(Len(evals)) : SerialRun(p, 1, [k \in AlertKeys |-> ""])

----------------------------------------------------------------------------
\* Properties of the scheduler lifecycle

LiveLoops(kind) == { l \in LoopIds : l[1] = kind /\ loopPc[l] \in {"select", "cycle"} }

\* C3: a Stop call that found the scheduler running returns only when no
\* loop goroutine is left and every cycle that was in flight when it was
\* called has finished its work.
C3_StopWaitsForLoopsAndCycles ==
    lastStep.op = "StopReturn" =>
        /\ LiveLoops("poll") = {} /\ LiveLoops("alert") = {}
        /\ midFlight = {}

\* C4: a panic raised inside a cycle is caught at the cycle boundary: the
\* process goes on, the goroutine that ran the cycle is still there (a
\* ticker loop is back at its select, Start goes on to launch the loops).
C4_PanicContained ==
    lastStep.op = "Panic" =>
        /\ ~crashed
        /\ lastStep.who \in LoopIds => loopPc[lastStep.who] = "select"
        /\ lastStep.who \notin LoopIds => startPc[lastStep.who[2]].pc = "launchPoll"

\* C5: Start is idempotent, so at no time is there more than one
\* poll-and-save loop or more than one alert-check loop.
C5_AtMostOneLoopOfEachKind ==
    /\ Cardinality(LiveLoops("poll")) <= 1
    /\ Cardinality(LiveLoops("alert")) <= 1

\* C6: a Stop call that finds the scheduler not running changes nothing: it
\* does not close the stop channel, does not wait, and returns at once.
C6_StopWhenNotRunningIsNoOp ==
    [][ \A x \in Stoppers :
            (stopPc[x] = "idle" /\ ~running /\ lastStep' = Step("Stop", <<"stop", x>>))
                => UNCHANGED <<schedState, midFlight, stoppedGen>> ]_vars

\* C6 witness: Stop has just been called on a scheduler that had already
\* been stopped (the stop channel is closed), and the caller is not waiting.
C6_Witness ==
    /\ lastStep.op = "Stop"
    /\ ~lastStep.wasRunning
    /\ stopChan = "closed"
    /\ stopPc[lastStep.who[2]] = "idle"

\* C7: once Stop has returned the scheduler can be started again, and the
\* loops launched by a Start call keep ticking until the next Stop: for a
\* Start called while no Stop call was in progress, and with no Stop call
\* in progress now, a loop goroutine it launched leaves its select for good
\* only if Stop has been called after that Start.
C7_LoopsTickUntilNextStop ==
    [][ \A l \in LoopIds :
            ( /\ loopPc[l] = "select" /\ loopPc'[l] = "exited"
              /\ l[2] \in cleanGen
              /\ \A x \in Stoppers : stopPc[x] = "idle" )
                => l[2] <= stoppedGen ]_vars

----------------------------------------------------------------------------
\* Properties of the event fan-out

ListOf(kind) == IF kind = "saved" THEN subscribers ELSE temperatureSubscribers

NotifyOf(kind) == IF kind = "saved" THEN notifySubscribers ELSE notifyTemperatureSubscribers

UnsubscribeOf(kind, c) == IF kind = "saved" THEN Unsubscribe(c) ELSE UnsubscribeTemperature(c)

Listed(c) == InList(subscribers, c) \/ InList(temperatureSubscribers, c)

\* Everything the reader of c has received or will receive from what is
\* buffered now, in that order.
Delivered(c) == hist[c].received \o chans[c].buf

Elems(q) == { q[i] : i \in 1..Len(q) }

\* C8: a publication of either kind is one step that is enabled however
\* full the subscribers' queues are; in it a listed subscriber whose queue
\* is full keeps its queue exactly as it was (the event is dropped for it,
\* nothing queued is overwritten), every other listed subscriber gets the
\* event appended to its queue, and the publication does not panic.
C8_PublishNeverBlocks ==
    [][ \A kind \in Kinds :
          /\ ( ~busPanic /\ \A c \in Chans : InList(ListOf(kind), c) => hist[c].seen < MaxPublish )
                => ENABLED NotifyOf(kind)
          /\ NotifyOf(kind) =>
                /\ ~busPanic'
                /\ \A c \in Chans :
                     IF ~InList(ListOf(kind), c)
                     THEN chans'[c] = chans[c]
                     ELSE IF Len(chans[c].buf) = ChanCap
                          THEN chans'[c] = chans[c]
                          ELSE chans'[c].buf = Append(chans[c].buf, hist'[c].seen)
      ]_vars

\* Two subscribers of one kind are listed; the last event published was
\* dropped for one of them, whose queue is full, and queued for the other.
C8_Witness ==
    \E c, d \in Chans :
        /\ c # d
        /\ chans[c].kind = chans[d].kind
        /\ chans[c].state = "open" /\ chans[d].state = "open"
        /\ Len(chans[c].buf) = ChanCap
        /\ hist[c].seen \notin Elems(Delivered(c))
        /\ hist[d].seen > 0
        /\ hist[d].seen \in Elems(Delivered(d))

\* C9: Unsubscribe of a listed channel takes it off the list and closes
\* it; a closed channel stays closed and off the list, its queue only
\* shrinks, no later publication counts it or panics on it, and once the
\* queue is drained its reader can observe the close.
C9_UnsubscribeClosesAndDetaches ==
    [][ \A c \in Chans :
          /\ \A kind \in Kinds :
               ( InList(ListOf(kind), c) /\ UnsubscribeOf(kind, c) ) =>
                   /\ ~InList(ListOf(kind)', c)
                   /\ chans'[c].state = "closed"
                   /\ chans'[c].buf = chans[c].buf
          /\ chans'[c].state = "closed" => ~Listed(c)'
          /\ ( chans[c].state = "closed" /\ chans[c].buf = <<>> /\ ~busPanic )
                => ENABLED ReceiveClosed(c)
          /\ chans[c].state = "closed" =>
               /\ chans'[c].state = "closed"
               /\ \/ chans'[c].buf = chans[c].buf
                  \/ chans[c].buf # <<>> /\ chans'[c].buf = Tail(chans[c].buf)
               /\ hist'[c].seen = hist[c].seen
               /\ ~busPanic'
      ]_vars

\* A channel was unsubscribed, an event of its kind was published after
\* that, and its reader has drained it and observed the close.
C9_Witness ==
    \E c \in Chans :
        /\ chans[c].state = "closed"
        /\ hist[c].missed
        /\ hist[c].sawClose
        /\ Len(hist[c].received) >= 1

\* C10: what a subscriber has received, followed by what is queued for
\* it, is always a strictly increasing sequence of events published since
\* it subscribed (no reordering, no duplicate, nothing older).  A
\* publication to the subscriber appends the new event to that sequence,
\* or leaves the sequence as it is if the queue holds ChanCap events; no
\* other step changes the sequence.
C10_InOrderSubsequence ==
    [][ \A c \in Chans :
          LET before == Delivered(c)
              after == Delivered(c)'
          IN /\ \A i \in 1..Len(after) : after[i] \in 1..hist'[c].seen
             /\ \A i \in 1..(Len(after) - 1) : after[i] < after[i + 1]
             /\ IF hist'[c].seen = hist[c].seen
                THEN after = before
                ELSE \/ after = Append(before, hist'[c].seen)
                     \/ after = before /\ Len(chans[c].buf) = ChanCap
      ]_vars

\* A subscriber has received several events although one published to it
\* was dropped.
C10_Witness ==
    \E c \in Chans :
        /\ Len(hist[c].received) >= 2
        /\ \E j \in 1..hist[c].seen : j \notin Elems(Delivered(c))

----------------------------------------------------------------------------
\* Properties of the cycles

\* A step in which loop g takes a reading from the response and drops it:
\* no temp_log row, no entry into checkProbeAlert (alert state, evaluations
\* and mutex as they were), no temperature-event entry, savedCount and
\* errorCount as they were, nothing handed to the subscribers.
ReadingDropped(g) ==
    /\ cycle'[g] = [cycle[g] EXCEPT !.seen = @ + 1]
    /\ lastReading'.write = "none"
    /\ UNCHANGED <<tempLogs, alertVars, lastEvent, busVars>>

\* The inputs of a reading step.
WriteOutcomes == {"none", "ok", "dup", "fail"}

\* C11: in pollAndSave and in checkAlerts a reading whose raw value is
\* 65535 or -1 is dropped: it is not persisted, not evaluated, not added to
\* the temperature event and not counted.
C11_SentinelSkipped ==
    [][ \A g \in Evaluators, m \in Machines, pd \in Readings,
           w \in WriteOutcomes, mqtt \in BOOLEAN :
          ( pd.RealValue \in {65535, -1} /\ CycleReading(g, m, pd, w, mqtt) )
              => ReadingDropped(g)
      ]_vars

\* A poll-and-save cycle has saved one reading and then skipped a sentinel.
C11_Witness ==
    /\ lastReading.verdict = "sentinel"
    /\ lastReading.g = "poll"
    /\ cycle["poll"].seen = 2
    /\ cycle["poll"].savedCount = 1
    /\ tempLogs.count = 1

\* C12: in pollAndSave and in checkAlerts a reading whose calibrated value
\* is above 80.00 is dropped, whatever the probe's configured maximum: it
\* is not persisted, not evaluated (the stored state stays), not added to
\* the temperature event and not counted, neither as saved nor as error.
C12_CeilingDiscarded ==
    [][ \A g \in Evaluators, m \in Machines, pd \in Readings,
           w \in WriteOutcomes, mqtt \in BOOLEAN :
          ( pd.TempValue + GetAdjTemp(m) > 8000 /\ CycleReading(g, m, pd, w, mqtt) )
              => ReadingDropped(g)
      ]_vars

\* An alert-check cycle has evaluated one reading and added it to its
\* event, and then discarded a reading above the ceiling whose value is
\* below the probe's maximum.
C12_Witness ==
    /\ lastReading.verdict = "ceiling"
    /\ lastReading.g = "alert"
    /\ Len(cycle["alert"].payloads) = 1
    /\ Len(evals) = 1
    /\ \E k \in AlertKeys : alertStates[k] # ""

\* The classification of a value against a range.
Classify(value, min, max) ==
    IF value < min THEN "L" ELSE IF value > max THEN "H" ELSE "N"

\* C16: the status of a created temp_log row, the status of a
\* temperature-event entry, the candidate of an evaluation and the state
\* checkProbeAlert stores are all Classify(value, min, max): Low below
\* min, else High above max, else Normal, so min and max themselves are
\* Normal.
C16_OneClassification ==
    [][ /\ \A g \in Evaluators, m \in Machines, pd \in Readings,
              w \in WriteOutcomes, mqtt \in BOOLEAN :
             LET t == pd.TempValue + GetAdjTemp(m)
                 c == Classify(t, GetMinTemp(m), GetMaxTemp(m))
             IN ( CycleReading(g, m, pd, w, mqtt) /\ lastReading'.verdict = "processed" ) =>
                  /\ c \in {"L", "N", "H"}
                  /\ (t = GetMinTemp(m) \/ t = GetMaxTemp(m)) => c = "N"
                  /\ w = "ok" => tempLogs'.newest.Status = c /\ tempLogs'.newest.TempValue = t
                  /\ mqtt => cycle'[g].payloads[Len(cycle'[g].payloads)].Status = c
                  /\ evals'[Len(evals')].cand = c
        /\ \A g \in Evaluators :
             ( cpaPc[g] = "locked2" /\ cpaPc'[g] = "idle" ) =>
                 alertStates'[AlertKey(cpa[g].machine, cpa[g].probeNo)]
                     = Classify(cpa[g].temp, GetMinTemp(cpa[g].machine), GetMaxTemp(cpa[g].machine))
      ]_vars

\* A reading equal to the probe's maximum was persisted as Normal, and one
\* equal to its minimum was evaluated and stored as Normal.
C16_Witness ==
    /\ tempLogs.count = 1
    /\ tempLogs.newest.TempValue = 3000
    /\ tempLogs.newest.Status = "N"
    /\ Len(evals) = 2
    /\ evals[2].cand = "N"
    /\ lastReading = NoReading
    /\ lastEvent.kind = "temperature"
    /\ Len(lastEvent.entries) = 1
    /\ lastEvent.entries[1].TempValue = 2000
    /\ lastEvent.entries[1].Status = "N"
    /\ alertStates[<<"ip1", 1>>] = "N"

----------------------------------------------------------------------------
\* Properties of one evaluation (calls of checkProbeAlert one at a time)

\* The key and the candidate of the evaluation goroutine g is in.
KeyOf(g) == AlertKey(cpa[g].machine, cpa[g].probeNo)

CandidateOf(g) ==
    Classify(cpa[g].temp, GetMinTemp(cpa[g].machine), GetMaxTemp(cpa[g].machine))

\* The stored classification of a key, an unseen key counting as Normal.
Stored(k) == IF alertStates[k] = "" THEN "N" ELSE alertStates[k]

\* The comparison of goroutine g's evaluation is made in this step, and
\* the return of the call.
Compares(g) == cpaPc[g] = "compare" /\ cpaPc'[g] # "compare"

Returns(g) == cpaPc[g] # "idle" /\ cpaPc'[g] = "idle"

\* C13: when the candidate equals the state stored for the key, the
\* evaluation emits nothing (no alert record, no notification), returns
\* without writing, and the stored state of every key is as it was.
C13_SameStateNoEffect ==
    [][ \A g \in Evaluators :
          ( Compares(g) /\ CandidateOf(g) = alertStates[KeyOf(g)] ) =>
              /\ evals'[cpa[g].idx].out = "none"
              /\ Returns(g)
              /\ alertStates' = alertStates
      ]_vars

\* A key stored as High was evaluated with a High reading again, which
\* emitted nothing.
C13_Witness ==
    /\ AlertQuiescent
    /\ \E k \in AlertKeys :
          /\ alertStates[k] = "H"
          /\ Len(EvalsOf(k)) = 2
          /\ [i \in 1..2 |-> EvalsOf(k)[i].cand] = <<"H", "H">>
          /\ [i \in 1..2 |-> EvalsOf(k)[i].out] = <<"alert", "none">>

\* C14: when the candidate differs from the stored classification (an
\* unseen key counting as Normal), the evaluation emits one transition, an
\* alert if the candidate is High or Low (also High -> Low and Low ->
\* High), a recovery if it is Normal, and its write makes the candidate
\* the stored state of that key and of no other; an unseen key whose
\* reading is in range emits nothing.
C14_ChangeEmitsOneTransition ==
    [][ \A g \in Evaluators :
          /\ ( Compares(g) /\ CandidateOf(g) # Stored(KeyOf(g)) ) =>
                /\ evals'[cpa[g].idx].out =
                       IF CandidateOf(g) \in {"H", "L"} THEN "alert" ELSE "recovery"
                /\ cpaPc'[g] = "lock2"
          /\ ( Compares(g) /\ alertStates[KeyOf(g)] = "" /\ CandidateOf(g) = "N" ) =>
                evals'[cpa[g].idx].out = "none"
          /\ ( Returns(g) /\ CandidateOf(g) # Stored(KeyOf(g)) ) =>
                alertStates' = [alertStates EXCEPT ![KeyOf(g)] = CandidateOf(g)]
      ]_vars

\* One key went High, then directly Low, then back to Normal (alert,
\* alert, recovery) and is stored as Normal; another, unseen, key was
\* evaluated in range and emitted nothing.
C14_Witness ==
    /\ AlertQuiescent
    /\ \E k, u \in AlertKeys :
          /\ k # u
          /\ alertStates[k] = "N"
          /\ Len(EvalsOf(k)) = 3
          /\ [i \in 1..3 |-> EvalsOf(k)[i].cand] = <<"H", "L", "N">>
          /\ [i \in 1..3 |-> EvalsOf(k)[i].out] = <<"alert", "alert", "recovery">>
          /\ Len(EvalsOf(u)) = 1
          /\ EvalsOf(u)[1].cand = "N" /\ EvalsOf(u)[1].out = "none"

\* The probe of the scenario: thresholds 20.00 and 30.00, and the
\* classifications of its readings 18.00, 25.00, 32.00, 24.00.
ScenarioKey == <<"ip1", 1>>

ScenarioCands == [i \in 1..4 |-> Classify(<<1800, 2500, 3200, 2400>>[i], 2000, 3000)]

\* The first n evaluations of the scenario's probe are those of the
\* scenario and have returned.
ScenarioRan(n) ==
    /\ Len(EvalsOf(ScenarioKey)) >= n
    /\ \A i \in 1..n : /\ EvalsOf(ScenarioKey)[i].cand = ScenarioCands[i]
                       /\ EvalsOf(ScenarioKey)[i].out # "pending"

\* How many of the first n evaluations of the scenario's probe emitted out.
ScenarioCount(n, out) ==
    Cardinality({ i \in 1..n : EvalsOf(ScenarioKey)[i].out = out })

\* C15 as stated: the readings 18.0, 25.0, 32.0 of the unseen probe give
\* two alerts and no recovery, and the fourth reading 24.0 one recovery.
C15_ScenarioAsStated ==
    /\ ScenarioRan(3) => /\ ScenarioCount(3, "alert") = 2
                         /\ ScenarioCount(3, "recovery") = 0
    /\ ScenarioRan(4) => EvalsOf(ScenarioKey)[4].out = "recovery"

\* C15, amended: the readings 18.0, 25.0, 32.0 of the unseen probe give an
\* alert (Low), a recovery (25.0 is back in range) and an alert (High), so
\* two alerts and one recovery; the fourth reading 24.0 gives one more
\* recovery.
C15_ScenarioAmended ==
    /\ ScenarioRan(3) =>
          /\ [i \in 1..3 |-> EvalsOf(ScenarioKey)[i].out] = <<"alert", "recovery", "alert">>
          /\ ScenarioCount(3, "alert") = 2
          /\ ScenarioCount(3, "recovery") = 1
    /\ ScenarioRan(4) => EvalsOf(ScenarioKey)[4].out = "recovery"

\* The four readings of the scenario have been evaluated, and nothing else
\* for that probe.
C15_Witness ==
    /\ AlertQuiescent
    /\ Len(EvalsOf(ScenarioKey)) = 4
    /\ ScenarioRan(4)
    /\ ScenarioCands = <<"L", "N", "H", "N">>
    /\ alertStates[ScenarioKey] = "N"

----------------------------------------------------------------------------
\* Properties of the frame decoder

\* The probe numbers of the readings returned, in order.
ProbeNos == [i \in 1..Len(parsed.probes) |-> parsed.probes[i].ProbeNo]

HeaderMatches == Len(frame) >= 3 /\ SubSeq(frame, 1, 3) = <<65, 65, 90>>

\* C17: for a frame of fewer than 9 bytes, and for a frame whose first
\* three bytes are not 41 41 5A, the decoder returns no reading, and it
\* does not read past the end of the buffer.
C17_ShortOrBadHeaderGivesNothing ==
    ( parsed.done /\ (Len(frame) < 9 \/ ~HeaderMatches) ) =>
        /\ ~parsed.panicked
        /\ parsed.probes = << >>

\* A frame of 8 bytes with the right header and separator was decoded to
\* nothing.
C17_Witness ==
    /\ parsed.done
    /\ Len(frame) = 8
    /\ HeaderMatches
    /\ frame[5] = 90
    /\ parsed.probes = << >>

\* C18: a frame 41 41 5A <ind> 5A <hi> <lo> 5A 0D of 9 bytes with an
\* indicator other than 03 gives exactly one reading, of probe 1, with raw
\* value hi*256 + lo.
C18_OneProbeFrame ==
    ( /\ parsed.done
      /\ Len(frame) = 9
      /\ HeaderMatches
      /\ frame[4] # 3
      /\ frame[5] = 90 /\ frame[8] = 90 /\ frame[9] = 13 ) =>
        /\ ~parsed.panicked
        /\ Len(parsed.probes) = 1
        /\ parsed.probes[1].ProbeNo = 1
        /\ parsed.probes[1].RealValue = frame[6] * 256 + frame[7]

\* 41 41 5A 00 5A 19 A3 5A 0D was decoded to one reading with raw 6563.
C18_Witness ==
    /\ parsed.done
    /\ frame = <<65, 65, 90, 0, 90, 25, 163, 90, 13>>
    /\ Len(parsed.probes) = 1
    /\ parsed.probes[1].RealValue = 6563

\* C19: a frame 41 41 5A 03 5A <hi1> <lo1> 5A <hi2> <lo2> 5A 0D of 12
\* bytes gives exactly two readings, probe 1 then probe 2, with raw values
\* hi1*256 + lo1 and hi2*256 + lo2.
C19_TwoProbeFrame ==
    ( /\ parsed.done
      /\ Len(frame) = 12
      /\ HeaderMatches
      /\ frame[4] = 3
      /\ frame[5] = 90 /\ frame[8] = 90 /\ frame[11] = 90 /\ frame[12] = 13 ) =>
        /\ ~parsed.panicked
        /\ ProbeNos = <<1, 2>>
        /\ parsed.probes[1].RealValue = frame[6] * 256 + frame[7]
        /\ parsed.probes[2].RealValue = frame[9] * 256 + frame[10]

\* 41 41 5A 03 5A 19 A3 5A 19 AE 5A 0D was decoded to two readings, the
\* second with raw 6574.
C19_Witness ==
    /\ parsed.done
    /\ frame = <<65, 65, 90, 3, 90, 25, 163, 90, 25, 174, 90, 13>>
    /\ ProbeNos = <<1, 2>>
    /\ parsed.probes[2].RealValue = 6574

\* C20: of the frames that pass the length and header checks, exactly
\* those of 12 bytes (whatever the indicator) and those with indicator 03
\* are decoded in two-probe mode: a reading of probe 2 is returned iff the
\* frame is one of those, has at least 10 bytes and has 5A at [7]; so a
\* 9-byte frame with indicator 03 gives at most probe 1.
C20_TwoProbeMode ==
    ( parsed.done /\ Len(frame) >= 9 /\ HeaderMatches ) =>
        /\ ~parsed.panicked
        /\ (\E i \in 1..Len(parsed.probes) : parsed.probes[i].ProbeNo = 2)
              <=> ( /\ Len(frame) = 12 \/ frame[4] = 3
                    /\ Len(frame) >= 10
                    /\ frame[8] = 90 )
        /\ ( Len(frame) = 9 /\ frame[4] = 3 ) => \A i \in 1..Len(parsed.probes) :
                                                     parsed.probes[i].ProbeNo = 1

\* A 12-byte frame with indicator 00 was decoded to two readings.
C20_Witness ==
    /\ parsed.done
    /\ Len(frame) = 12
    /\ frame[4] = 0
    /\ ProbeNos = <<1, 2>>

HasProbeNo(n) == \E i \in 1..Len(parsed.probes) : parsed.probes[i].ProbeNo = n

\* C21: the two separator checks are independent. For a frame past the
\* length and header checks, probe 1 is returned iff byte [4] is 5A, and
\* probe 2 iff the frame is in two-probe mode with at least 10 bytes and
\* byte [7] is 5A; the probe numbers returned are 1 or 2, in increasing
\* order and never repeated (so a frame can give probe 2 alone).
C21_SeparatorsIndependent ==
    ( parsed.done /\ Len(frame) >= 9 /\ HeaderMatches ) =>
        /\ HasProbeNo(1) <=> frame[5] = 90
        /\ HasProbeNo(2) <=> ( /\ Len(frame) = 12 \/ frame[4] = 3
                               /\ Len(frame) >= 10
                               /\ frame[8] = 90 )
        /\ ProbeNos \in { << >>, <<1>>, <<2>>, <<1, 2>> }

\* A frame whose separator at [4] is wrong and whose separator at [7] is
\* right was decoded to probe 2 alone.
C21_Witness ==
    /\ parsed.done
    /\ Len(frame) = 12
    /\ frame[5] # 90
    /\ frame[8] = 90
    /\ ProbeNos = <<2>>

\* C22: the decoded temperature of every reading, in hundredths of a
\* degree, is exactly its raw value minus 4000, for raw values above, equal
\* to and below 4000.
C22_TemperatureIsRawMinus4000 ==
    parsed.done => \A i \in 1..Len(parsed.probes) :
                       parsed.probes[i].TempValue = parsed.probes[i].RealValue - 4000

----------------------------------------------------------------------------
\* Properties of a request to a device

\* The dial or the write failed, or a read failed for another reason than
\* the deadline.
ConnectivityFailure ==
    \/ req.Error # ""
    \/ req.endedBy \in {"eof", "reset"}

\* C23: a connectivity failure (dial, write or read failure) on an endpoint
\* produces no readings for that endpoint (and the cycle goes on with the
\* other endpoints and publishes its DataSavedEvent).
C23_FailureGivesNoReadings ==
    ( req.pc = "returned" /\ ConnectivityFailure ) => parsed.probes = << >>

LastByte(b) == b[Len(b)]

\* C30: the read loop goes on while the buffer does not end in 0D and
\* ends at the first read after which it does, or at a failed read; an end
\* by timeout is not an error: the result is connected, its error is
\* empty, and the bytes received so far have been handed to the decoder
\* (nine bytes with the right header and separator give a reading), while
\* nothing received gives no readings and no error.
C30_ReadLoopEndsAtMarkerOrFailure ==
    /\ req.pc = "read" => ( frame = << >> \/ LastByte(frame) # 13 )
    /\ req.pc \in {"after", "returned"} /\ req.Error = "" =>
          /\ req.endedBy \in {"marker"} \cup ReadErrors
          /\ req.endedBy = "marker" <=> ( frame # << >> /\ LastByte(frame) = 13 )
    /\ req.pc = "returned" /\ req.endedBy \in ReadErrors =>
          /\ req.Connected
          /\ req.Error = ""
          /\ ~parsed.panicked
          /\ frame = << >> => parsed.probes = << >>
          /\ ( Len(frame) >= 9 /\ frame[5] = 90 ) =>
                 /\ Len(parsed.probes) >= 1
                 /\ parsed.probes[1].RealValue = frame[6] * 256 + frame[7]

\* A request ended by a timeout after 9 bytes without the end marker
\* returned a reading, connected and without an error.
C30_Witness ==
    /\ req.pc = "returned"
    /\ req.endedBy = "timeout"
    /\ Len(frame) = 9
    /\ LastByte(frame) # 13
    /\ Len(parsed.probes) = 1
    /\ req.Connected
    /\ req.Error = ""

----------------------------------------------------------------------------
\* Properties of the cycles' bookkeeping

\* The step handles a reading of loop g that passed both filters, with
\* write outcome w.
ProcessesReading(g, w) ==
    /\ cycle'[g].seen = cycle[g].seen + 1
    /\ lastReading' = [g |-> g, verdict |-> "processed", write |-> w]

\* The step ends the running cycle of loop g.
EndsCycle(g) == cycle[g].active /\ ~cycle'[g].active

C25_SendIsDetachedAndOnlyForSaved ==
    [][ /\ sends'.launched # sends.launched =>
              /\ ProcessesReading("poll", "ok")
              /\ sends'.launched = sends.launched + 1
              /\ tempLogs'.count = tempLogs.count + 1
        /\ sends'.launched <= tempLogs'.count
        /\ ( cycle["poll"].active /\ cpaPc["poll"] = "idle" ) => ENABLED CycleEnd("poll")
        /\ sends'.running < sends.running =>
              /\ sends'.launched = sends.launched
              /\ sends'.running = sends.running - 1
              /\ UNCHANGED <<cycle, tempLogs, lastEvent, alertVars>>
      ]_vars

\* A cycle that saved two readings has ended while one of its sends was
\* still running, and the other send has failed: the event counts no error.
C25_Witness ==
    /\ ~cycle["poll"].active
    /\ lastEvent = [kind |-> "saved", saved |-> 2, errors |-> 0, entries |-> << >>]
    /\ sends = [launched |-> 2, running |-> 1, failed |-> 1]

\* C26: an alert-check cycle in which at least one reading passed the
\* filters ends by handing to the temperature subscribers one
\* TemperatureUpdateEvent with one entry per such reading, whatever the
\* state of the MQTT notifier; a cycle with no such reading hands out none.
C26_TemperatureEventPerCycle ==
    [][ EndsCycle("alert") =>
            IF cycle["alert"].passed > 0
            THEN /\ lastEvent'.kind = "temperature"
                 /\ Len(lastEvent'.entries) = cycle["alert"].passed
            ELSE lastEvent' = lastEvent
      ]_vars

----------------------------------------------------------------------------
\* Properties of the start-up

\* The Start calls that found the scheduler idle (not running, no Stop call
\* in progress) and have not finished their initial poll-and-save cycle.
InStartUp ==
    { s \in Starters : /\ startPc[s].pc \in {"init", "initialPoll"}
                       /\ startPc[s].gen \in cleanGen }

\* C27: from a Start call on an idle scheduler until its initial
\* poll-and-save cycle has finished, no ticker loop is launched and no loop
\* starts a cycle; and when that cycle has finished, also by a recovered
\* panic, the call goes on to launch the loops.
C27_InitialCycleBeforeLoops ==
    [][ /\ InStartUp # {} =>
              \A l \in LoopIds :
                  /\ ~(loopPc[l] = "none" /\ loopPc'[l] = "select")
                  /\ ~(loopPc[l] = "select" /\ loopPc'[l] = "cycle")
        /\ \A s \in Starters :
              ( startPc[s].pc = "initialPoll" /\ startPc'[s].pc # "initialPoll" )
                  => startPc'[s].pc = "launchPoll"
      ]_vars

----------------------------------------------------------------------------
\* Properties of the alert-state mutex

\* The goroutines that are at a statement that reads or writes the map.
AtMapAccess == { g \in Evaluators : cpaPc[g] \in {"locked1", "locked2"} }

\* C28: a goroutine that is at the read or at the write of the alert-state
\* map holds alertStatesMu, so the two loops are never both at an access of
\* the map.
C28_MapAccessUnderMutex ==
    /\ \A g \in AtMapAccess : alertStatesMu = g
    /\ Cardinality(AtMapAccess) <= 1

\* One loop is at its write of the map while the other is waiting for the
\* mutex to write.
C28_Witness ==
    \E g, h \in Evaluators :
        /\ cpaPc[g] = "locked2"
        /\ alertStatesMu = g
        /\ cpaPc[h] = "lock2"

----------------------------------------------------------------------------
\* Properties of the subscriber queues

\* C29: no subscriber's queue, of either event kind, ever holds more than
\* 10 (ChanCap) events, however many events are published to it and
\* however few of them its reader has taken.
C29_QueueBounded ==
    \A c \in Chans : Len(chans[c].buf) <= ChanCap

\* A subscriber of each kind whose reader has taken nothing has a full
\* queue and has been published more events than the queue holds.
C29_Witness ==
    \E c, d \in Chans :
        /\ chans[c].kind = "saved" /\ chans[d].kind = "temperature"
        /\ chans[c].state = "open" /\ chans[d].state = "open"
        /\ Len(chans[c].buf) = ChanCap /\ Len(chans[d].buf) = ChanCap
        /\ hist[c].seen > ChanCap /\ hist[d].seen > ChanCap
        /\ hist[c].received = << >> /\ hist[d].received = << >>

----------------------------------------------------------------------------
\* Properties of the scheduler after Stop

\* The last Stop call that found the scheduler running has returned, and
\* no Start call has found it not running since.
StoppedForGood ==
    /\ ~crashed
    /\ gen > 0
    /\ ~running
    /\ stoppedGen = gen
    /\ \A x \in Stoppers : stopPc[x] = "idle"

\* C31: after Stop has returned and until a new Start, no poll-and-save
\* cycle and no alert-check cycle is executing (so none has started since),
\* also when Stop was called during Start's wait or its initial cycle.
C31_NoCycleAfterStop ==
    StoppedForGood => InFlight = {}

\* C32: no sequence of Start and Stop calls closes the stop channel twice:
\* every close(p.stopChan) finds the channel open and does not panic.
C32_StopChannelClosedOnce ==
    [][ \A x \in Stoppers : StopClose(x) => ( stopChan = "open" /\ ~crashed' ) ]_vars

----------------------------------------------------------------------------
\* Properties of the fan-out under p.subMu

\* The channels a publisher that is inside its loop has still to send to.
StillToSend(p) ==
    IF busPc[p].pc = "range"
    THEN { busPc[p].list[i] : i \in busPc[p].idx..Len(busPc[p].list) }
    ELSE {}

\* C33: whatever the interleaving of a publication with Unsubscribe calls,
\* of either kind, every channel the publisher has still to send to is
\* open and is in the subscriber list of its kind, and no send panics.
C33_NoSendOnClosedQueue ==
    /\ ~busPanic
    /\ \A p \in Publishers : \A c \in StillToSend(p) :
           /\ chans[c].state = "open"
           /\ InList(SubscribersOf(busPc[p].kind), c)

\* A publisher has sent to the first of two subscribers and has still to
\* send to the second, for which an Unsubscribe call is waiting at the
\* mutex.
C33_Witness ==
    \E p \in Publishers, u \in Unsubscribers :
        /\ busPc[p].pc = "range"
        /\ busPc[p].idx = 2
        /\ Len(busPc[p].list) = 2
        /\ busPc[u].pc = "lock"
        /\ busPc[u].ch = busPc[p].list[2]
        /\ subMu = p

\* The list without the channel c, the other entries in their order.
Others(subs, c) == SelectSeq(subs, LAMBDA d : d # c)

\* C34: an Unsubscribe call whose channel is not in the list of its kind
\* changes no list and closes nothing, so a channel is never closed twice;
\* one whose channel is in the list takes out that entry only, leaving the
\* other entries in their order, the other list as it was, and every
\* queue, the channel's own included, with the events it held.
C34_UnsubscribeLeavesTheOthers ==
    [][ \A u \in Unsubscribers :
          LET c == busPc[u].ch
              subs == SubscribersOf(busPc[u].kind)
          IN /\ ( busPc[u].pc = "search" /\ busPc'[u] # busPc[u] ) =>
                    /\ chans' = chans
                    /\ SubscribersOf(busPc[u].kind)' = Others(subs, c)
                    /\ \A k \in Kinds \ {busPc[u].kind} : SubscribersOf(k)' = SubscribersOf(k)
                    /\ busPc'[u].pc = IF InList(subs, c) THEN "close" ELSE "unlock"
             /\ ( busPc[u].pc = "close" /\ busPc'[u] # busPc[u] ) =>
                    /\ chans[c].state = "open"
                    /\ chans' = [chans EXCEPT ![c].state = "closed"]
                    /\ UNCHANGED <<subscribers, temperatureSubscribers>>
             /\ ~busPanic'
      ]_vars

\* The second of three subscribers has been unsubscribed and closed, the
\* first and the third are listed in that order with their queued events,
\* and a second Unsubscribe call for the closed channel has found nothing.
C34_Witness ==
    \E u \in Unsubscribers, k \in Kinds :
        /\ SubscribersOf(k) = <<"c1", "c3">>
        /\ chans["c2"].state = "closed" /\ chans["c2"].kind = k
        /\ chans["c1"].buf # << >> /\ chans["c3"].buf # << >>
        /\ busPc[u].pc = "unlock"
        /\ busPc[u].ch = "c2"
        /\ ~busPc[u].found

\* The poll-and-save cycles in flight (the initial one of a Start call or a
\* ticked one) and the alert-check cycles in flight.
CyclesInFlight(kind) ==
    { o \in InFlight : o[1] = kind \/ (kind = "poll" /\ o[1] = "start") }

\* C35: cycles of the same kind never overlap: at any moment at most one
\* poll-and-save cycle (initial or ticked) and at most one alert-check
\* cycle is in flight.
C35_CyclesOfAKindNeverOverlap ==
    /\ Cardinality(CyclesInFlight("poll")) <= 1
    /\ Cardinality(CyclesInFlight("alert")) <= 1

\* C36: in a poll-and-save cycle every reading that passed both filters
\* enters checkProbeAlert in the step that handles it, whether its write
\* succeeded, hit a duplicate key or failed; and an evaluation is begun by
\* no other step, so each such reading is evaluated exactly once.
C36_EvaluatedWhateverTheWrite ==
    [][ /\ \A w \in {"ok", "dup", "fail"} : ProcessesReading("poll", w) =>
              /\ Len(evals') = Len(evals) + 1
              /\ cpaPc'["poll"] = "locked1"
              /\ cpa'["poll"].idx = Len(evals')
        /\ Len(evals') # Len(evals) =>
              /\ Len(evals') = Len(evals) + 1
              /\ \E g \in Evaluators, w \in {"none", "ok", "dup", "fail"} :
                     ProcessesReading(g, w)
        /\ cycle'["poll"].active => Len(evals') >= cycle'["poll"].passed
      ]_vars

\* A poll-and-save cycle has handled two readings, one whose write hit a
\* duplicate key and one whose write failed, and both were evaluated.
C36_Witness ==
    /\ cycle["poll"].active
    /\ cycle["poll"].passed = 2
    /\ cycle["poll"].dups = 1
    /\ cycle["poll"].errorCount = 1
    /\ Len(evals) = 2
    /\ \A i \in 1..2 : evals[i].out # "pending"

\* C37: the evaluation writes an alert record (temp_error) exactly when it
\* emits a transition into High or Low: one Create per such transition,
\* none on a recovery and none when the classification is unchanged; and
\* whatever the outcome of that Create (written, duplicate key, other
\* failure) the call goes on to store the new classification.
C37_AlertRecordPerTransition ==
    [][ \A g \in Evaluators :
          /\ ( cpaPc[g] = "compare" /\ cpaPc'[g] # "compare" ) =>
                LET out == evals'[cpa[g].idx].out
                    rec == cpa'[g].record
                IN /\ out = "alert" <=> rec \in {"ok", "dup", "fail"}
                   /\ out \in {"recovery", "none"} <=> rec = "none"
                   /\ rec # "none" => cpaPc'[g] = "lock2"
          /\ ( cpaPc[g] \in {"lock2", "locked2"} /\ cpaPc'[g] # "idle" ) =>
                cpa'[g].record = cpa[g].record
          /\ ( cpaPc[g] = "locked2" /\ cpaPc'[g] = "idle" ) =>
                /\ cpa'[g].record = cpa[g].record
                /\ alertStates'[AlertKey(cpa[g].machine, cpa[g].probeNo)]
                       = evals[cpa[g].idx].cand
      ]_vars

\* An evaluation whose alert record could not be written (a failure other
\* than a duplicate key) has returned, and the stored state of its key is
\* the High it alerted on; the other loop's last evaluation recovered a
\* key and wrote no record.
C37_Witness ==
    /\ AlertQuiescent
    /\ cpa["poll"].record = "fail"
    /\ cpa["alert"].record = "none"
    /\ Len(evals) >= 3
    /\ evals[Len(evals)].out = "alert"
    /\ evals[Len(evals)].cand = "H"
    /\ alertStates[evals[Len(evals)].key] = "H"
    /\ evals[Len(evals) - 1].out = "recovery"

\* A complete response: the header, then 9 or 12 bytes in all, the last
\* one the end marker.
ValidFrame(s) ==
    /\ Len(s) \in {9, 12}
    /\ SubSeq(s, 1, 3) = <<65, 65, 90>>
    /\ s[Len(s)] = 13

\* C38: the readings returned for a complete response frame do not depend
\* on how its bytes were split into reads: when the read loop was ended by
\* the marker check, and not by a read error, the readings are those the
\* decoder gives for the whole frame, as when it arrives in a single read.
C38_ReadingsIndependentOfSplit ==
    ( req.pc = "returned" /\ req.endedBy = "marker" /\ ValidFrame(req.stream) )
        => parsed = parseHexResponse(req.stream)

\* The step begins an evaluation by loop g.
BeginsEvaluation(g) == cpaPc[g] = "idle" /\ cpaPc'[g] = "locked1"

\* The evaluation loop g is in is of a reading whose probe number has no
\* row at its endpoint.
Borrowing(c) == ~HasConfig(ProbesAt(c.machine.MachineIP), c.probeNo)

\* C39: a reading whose probe number has no row at its endpoint is
\* processed with the thresholds and offset of the endpoint's first row
\* and with its own decoded probe number; its evaluation is recorded, reads
\* and stores under the key (ip, decoded probe number), and changes the
\* stored state of no other key, the borrowed row's included.
C39_FallbackKeepsItsOwnKey ==
    [][ \A g \in Evaluators :
          /\ ( BeginsEvaluation(g) /\ Borrowing(cpa'[g]) ) =>
                LET c == cpa'[g]
                    first == ProbesAt(c.machine.MachineIP)[1]
                IN /\ c.machine.MinTemp = first.MinTemp
                   /\ c.machine.MaxTemp = first.MaxTemp
                   /\ c.machine.AdjTemp = first.AdjTemp
                   /\ c.machine.ProbeNo = c.probeNo
                   /\ c.probeNo # first.ProbeNo
                   /\ evals'[c.idx].key = <<c.machine.MachineIP, c.probeNo>>
                   /\ evals'[c.idx].cand =
                          Classify(c.temp, GetMinTemp(first), GetMaxTemp(first))
          /\ ( cpaPc[g] # "idle" /\ cpaPc'[g] # cpaPc[g] /\ Borrowing(cpa[g]) ) =>
                LET own == <<cpa[g].machine.MachineIP, cpa[g].probeNo>>
                IN /\ cpaPc[g] = "locked1" => cpa'[g].prevState = alertStates[own]
                   /\ \A k \in AlertKeys \ {own} : alertStates'[k] = alertStates[k]
                   /\ cpaPc[g] = "locked2" => alertStates'[own] = evals[cpa[g].idx].cand
      ]_vars

\* The configured probe 1 of ip2 has been evaluated as Normal, and then a
\* reading of its probe 2, which has no row, as High against the
\* thresholds of probe 1: each state is stored under its own key.
C39_Witness ==
    /\ AlertQuiescent
    /\ Len(evals) = 2
    /\ evals[1].key = <<"ip2", 1>>
    /\ evals[2].key = <<"ip2", 2>>
    /\ alertStates[<<"ip2", 1>>] = "N"
    /\ alertStates[<<"ip2", 2>>] = "H"

----------------------------------------------------------------------------
\* Properties of RetryWithBackoff

RECURSIVE Pow2(_)
Pow2(k) == IF k = 0 THEN 1 ELSE 2 * Pow2(k - 1)

Smaller(a, b) == IF a < b THEN a ELSE b

\* fn is called at most maxAttempts times; the first nil ends the call,
\* which returns nil; otherwise all maxAttempts calls are made and the
\* error of the last one is returned; a sleep follows every failed call
\* but the last.
RetryCallsAndResult ==
    ( retry.pc # "idle" /\ retry.maxAttempts >= 1 ) =>
        /\ retry.calls <= retry.maxAttempts
        /\ \A i \in 1..(retry.calls - 1) : retry.results[i] # "nil"
        /\ Len(retry.slept) \in {retry.calls - 1, retry.calls}
        /\ Len(retry.slept) < retry.maxAttempts
        /\ retry.pc = "returned" =>
              /\ retry.calls >= 1
              /\ retry.result = retry.results[retry.calls]
              /\ retry.result # "nil" => retry.calls = retry.maxAttempts
              /\ Len(retry.slept) = retry.calls - 1

\* The k-th sleep is initialDelay doubled k - 1 times, and no more than
\* maxDelay.
RetryDelaysCapped ==
    \A k \in 1..Len(retry.slept) :
        retry.slept[k] = Smaller(retry.initialDelay * Pow2(k - 1), retry.maxDelay)

RetryTerminates == ( retry.pc # "idle" ) ~> ( retry.pc = "returned" )

====
